---- MODULE Spec2Model ----
(***************************************************************************)
(* A model of the mraker application: the prayer-reminder store and its    *)
(* notification rescheduler (app/(tabs)/prayers.tsx, store/prayerSlice.ts), *)
(* the alarm player of the same screen, and the balance screen              *)
(* (app/(tabs)/index.tsx).                                                  *)
(*                                                                          *)
(* Every asynchronous handler is cut at its awaits: one action runs the     *)
(* code from one await to the next.  A store dispatch is followed, in the   *)
(* same action, by the render it causes and by the effects whose            *)
(* dependencies changed.  A handler keeps the values its closure captured   *)
(* when the render that created it ran.                                     *)
(***************************************************************************)
EXTENDS Integers, Sequences, FiniteSets, Bags, TLC

\* ------------------------------------------------------------------ bounds
NumPrayers == 2      \* rows of prayer_reminders
MaxOps == 2          \* user-initiated handler invocations on the prayers screen
MaxBusy == 1          \* calls in flight when the user presses a button
MaxFaults == 1       \* remote calls that fail

Null == "null"
NoSound == 0       \* null where an Audio.Sound is expected
PlatformOS == "android"

VARIABLES
  \* prayers screen: remote table, store slice, notification subsystem
  remote,          \* prayer_reminders: [Ids -> row]
  prayers,         \* state.prayers.prayers
  loading,         \* state.prayers.loading
  updating,        \* state.prayers.updating
  globalRingtone,  \* state.prayers.globalRingtone
  mounted,         \* PrayersScreen is mounted
  scheduled,       \* bag of notifications the OS holds scheduled
  cancels,         \* bag of scheduleNotifications calls awaiting cancelAll
  schedReqs,       \* bag of scheduleNotificationAsync calls not yet applied
  fetches,         \* bag of fetchPrayers calls in flight
  ringFetches,     \* bag of fetchGlobalRingtone calls in flight
  toggles,         \* bag of handleToggleEnabled calls awaiting their write
  nOps,            \* handler invocations started by the user so far
  nFaults,         \* remote failures so far
  before,          \* history: the reminder and the schedule at the first toggle
  again,           \* history: how the second toggle relates to the first
  \* prayers screen: the alarm player
  playingSound,    \* useState playingSound: NoSound or an index of sounds
  activeAlarmId,   \* useState activeAlarmId
  sounds,          \* every Audio.Sound asked for, in the order of createAsync
  tray,            \* notifications delivered and not dismissed
  recvs,           \* bag of notification-received handlers in flight
  resps,           \* bag of notification-response handlers in flight
  nAlarm,          \* alarm events so far (deliveries, responses, ...)
  \* home screen
  balanceRows,     \* the balance table
  balance,         \* useState balance, in hundredths
  newBalance,      \* useState newBalance, the text of the amount field
  homeLoading,     \* useState loading of HomeScreen
  homeUpdating,    \* useState updating of HomeScreen
  modal,           \* the modal shown last
  calls,           \* bag of fetchBalance / updateBalance calls in flight
  homeMounted,     \* HomeScreen is mounted
  nHomeOps,        \* presses of the refresh and update buttons
  \* savings screen
  savingsRows,     \* the savings table
  savings,         \* useState savings
  totalSavings,    \* useState totalSavings, in hundredths
  savLoading,      \* useState loading of SavingsScreen
  savAdding,       \* useState adding
  savAmount,       \* useState amount, the text of the amount field
  savDescription,  \* useState description
  savCalls,        \* bag of handleAddSavings / fetchSavings calls in flight
  savMounted,      \* SavingsScreen is mounted
  nSavOps,         \* presses of the add button
  \* expenses screen
  expensesRows,    \* the expenses table
  expenses,        \* useState expenses
  expLoading,      \* useState loading of ExpensesScreen
  expAdding,       \* useState adding of ExpensesScreen
  expenseType,     \* useState expenseType
  expName,         \* useState name
  expAmount,       \* useState amount, the text of the amount field
  selectedDate,    \* useState selectedDate
  expCalls,        \* bag of handleAddExpense / fetchExpenses calls in flight
  expMounted,      \* ExpensesScreen is mounted
  nExpOps,         \* presses of the add button of ExpensesScreen
  \* the time conversions of the prayers screen
  convArg,         \* the time a chain of conversions started from
  convVal,         \* the time the chain has reached
  convTrace,       \* the conversions applied so far
  \* prayers screen: the time editor
  editingTimeId,   \* useState editingTimeId
  timeInput,       \* useState timeInput, the text of the time field
  isPM,            \* useState isPM
  timeEdits,       \* bag of handleTimeChange calls in flight
  nEditOps,        \* presses of the save button of the time editor
  \* the auth gate
  usersRows,       \* the users table
  biometrics,      \* the device: [hardware, enrolled]
  storage,         \* AsyncStorage: [isAuthenticated, username]
  isAuthenticated, \* useState isAuthenticated of AuthProvider
  isLoading,       \* useState isLoading of AuthProvider
  segments,        \* useSegments()[0]
  navs,            \* router.replace calls not yet applied, oldest first
  username,        \* useState username of LoginScreen
  password,        \* useState password of LoginScreen
  loginLoading,    \* useState loading of LoginScreen
  fingerprintAvailable, \* useState fingerprintAvailable of LoginScreen
  authCalls,       \* bag of AuthProvider calls in flight
  nAuthOps,        \* calls and navigations started from outside so far
  nAuthFaults,     \* failures of the remote store and of AsyncStorage so far
  restarts,        \* restarts of the app so far
  \* prayers screen: the ringtone picker
  picks,           \* bag of handleSetGlobalRingtone calls in flight
  nPickOps,        \* presses of the ringtone button so far
  \* the modal provider and the delete buttons
  visible,         \* useState visible of ModalProvider
  config,          \* useState config of ModalProvider
  hides,           \* bag of hideModal animations whose callback has not run
  shows,           \* history: showModal calls so far
  deletes,         \* bag of onConfirm calls of the delete dialogs in flight
  workRows,        \* the work_tracker table
  workEntries,     \* useState workEntries of WorkTrackerScreen
  workLoading,     \* useState loading of WorkTrackerScreen
  workCalls,       \* bag of fetchWorkEntries calls in flight
  workMounted,     \* WorkTrackerScreen is mounted
  nDlgOps,         \* presses of delete buttons and dialog buttons so far
  \* prayers screen: the notification permission
  permission,      \* the permission status the OS holds
  permCalls,       \* bag of requestPermissions calls in flight
  prompts,         \* history: system permission prompts shown so far
  permAlerts,      \* history: 'Permission Required' alerts shown so far
  nPermOps,        \* events on the mounted screen so far
  event            \* history: the last event handled

schedVars == <<remote, prayers, loading, updating, globalRingtone, mounted,
               scheduled, cancels, schedReqs, fetches, ringFetches, toggles,
               nOps, nFaults, before, again>>

\* what the alarm player never writes
schedOnlyVars == <<remote, prayers, loading, updating, scheduled, cancels,
                   schedReqs, fetches, ringFetches, toggles, nOps, before, again>>

alarmVars == <<playingSound, activeAlarmId, sounds, tray, recvs, resps, nAlarm>>

homeVars == <<balanceRows, balance, newBalance, homeLoading, homeUpdating,
              modal, calls, homeMounted, nHomeOps>>

\* what the home screen never writes
prayerScreenVars == <<schedOnlyVars, globalRingtone, mounted, alarmVars>>

homeOnlyVars == <<balanceRows, balance, newBalance, homeLoading, homeUpdating,
                  calls, homeMounted, nHomeOps>>

savingsVars == <<savingsRows, savings, totalSavings, savLoading, savAdding,
                 savAmount, savDescription, savCalls, savMounted, nSavOps>>

expensesVars == <<expensesRows, expenses, expLoading, expAdding, expenseType,
                  expName, expAmount, selectedDate, expCalls, expMounted, nExpOps>>

convVars == <<convArg, convVal, convTrace>>

\* the parts modelled after the expenses screen
editVars == <<editingTimeId, timeInput, isPM, timeEdits, nEditOps>>

authVars == <<usersRows, biometrics, storage, isAuthenticated, isLoading,
              segments, navs, username, password, loginLoading,
              fingerprintAvailable, authCalls, nAuthOps, nAuthFaults, restarts>>

pickVars == <<picks, nPickOps>>

dialogVars == <<visible, config, hides, shows, deletes, workRows, workEntries,
                workLoading, workCalls, workMounted, nDlgOps>>

permVars == <<permission, permCalls, prompts, permAlerts, nPermOps>>

lastVars == <<dialogVars, permVars>>

laterVars == <<convVars, editVars, authVars, pickVars, lastVars>>

\* the screens modelled after the prayers and the home screen
moreVars == <<savingsVars, expensesVars, laterVars>>

\* what the savings screen never writes
savingsFrame == <<prayerScreenVars, homeOnlyVars, expensesVars, laterVars>>

\* what the expenses screen never writes
expensesFrame == <<prayerScreenVars, homeOnlyVars, savingsVars, laterVars>>

vars == <<schedVars, alarmVars, homeVars, moreVars, event>>

\* ------------------------------------------------------- strings and numbers
Digits == <<"0", "1", "2", "3", "4", "5", "6", "7", "8", "9">>

IsDigit(c) == \E d \in 1..Len(Digits) : Digits[d] = c

DigitVal(c) == (CHOOSE d \in 1..Len(Digits) : Digits[d] = c) - 1

NaN == "NaN"

\* String.prototype.split(':')
RECURSIVE SplitColon(_)
SplitColon(s) ==
  IF \E i \in 1..Len(s) : s[i] = ":"
    THEN LET i == CHOOSE k \in 1..Len(s) :
                    s[k] = ":" /\ \A j \in 1..(k - 1) : s[j] # ":"
         IN  <<SubSeq(s, 1, i - 1)>> \o SplitColon(SubSeq(s, i + 1, Len(s)))
    ELSE <<s>>

RECURSIVE DecValue(_)
DecValue(s) ==
  IF s = <<>> THEN 0
  ELSE 10 * DecValue(SubSeq(s, 1, Len(s) - 1)) + DigitVal(s[Len(s)])

\* Number(string) on the strings a time field holds: "" is 0, digits are their
\* decimal value, anything else is NaN
Number(s) ==
  IF \A i \in 1..Len(s) : IsDigit(s[i]) THEN DecValue(s) ELSE NaN

\* const [hours, minutes] = time.split(':').map(Number)
ParseTime(time) ==
  LET parts == SplitColon(time)
  IN  [hours   |-> IF Len(parts) >= 1 THEN Number(parts[1]) ELSE Null,
       minutes |-> IF Len(parts) >= 2 THEN Number(parts[2]) ELSE Null]

\* JavaScript truthiness of a string | null
Truthy(x) == x # Null /\ x # ""

\* a || b
OrElse(a, b) == IF Truthy(a) THEN a ELSE b

\* ------------------------------------------------------------- the rows
PrayerIds == <<"p1", "p2", "p3", "p4", "p5">>

Ids == { PrayerIds[k] : k \in 1..NumPrayers }

PrayerNames == <<"Fajr", "Dhuhr", "Asr", "Maghrib", "Isha">>

SeedTimes == << <<"0", "5", ":", "3", "0">>,
                <<"1", "2", ":", "4", "5">>,
                <<"1", "5", ":", "0", "0">>,
                <<"1", "8", ":", "0", "5">>,
                <<"2", "0", ":", "1", "0">> >>

\* the first row has a ringtone of its own, the others have none
SeedRingtone(k) == IF k = 1 THEN "file:own.mp3" ELSE Null

SeedRows ==
  { [id |-> PrayerIds[k], prayer_name |-> PrayerNames[k], time |-> SeedTimes[k],
     enabled |-> e, ringtone_uri |-> SeedRingtone(k)] :
       k \in 1..NumPrayers, e \in BOOLEAN }

RangeOf(s) == { s[i] : i \in 1..Len(s) }

One(x) == SetToBag({x})

\* minutes since midnight of a zero-padded HH:MM, the key of .order('time')
TimeKey(time) ==
  LET t == ParseTime(time) IN 60 * t.hours + t.minutes

\* select('*').order('time', {ascending: true}): every order of the rows that
\* is ascending by time (rows of equal time come in either order)
SelectOrdered(table) ==
  { s \in [1..NumPrayers -> { table[i] : i \in Ids }] :
      /\ \A i, j \in 1..NumPrayers : i # j => s[i].id # s[j].id
      /\ \A i, j \in 1..NumPrayers : i < j => TimeKey(s[i].time) <= TimeKey(s[j].time) }

\* ------------------------------------------------------- prayerSlice reducers
FindIndex(list, id) ==
  IF \E i \in 1..Len(list) : list[i].id = id
    THEN CHOOSE i \in 1..Len(list) :
           list[i].id = id /\ \A j \in 1..(i - 1) : list[j].id # id
    ELSE -1

togglePrayerEnabled(list, id) ==
  LET index == FindIndex(list, id)
  IN  IF index # -1
        THEN [list EXCEPT ![index].enabled = ~list[index].enabled]
        ELSE list

\* ------------------------------------------------- scheduleNotifications
\* the ringtone fallback the wrong way round
NotificationGlobalFirst(prayer, global) ==
  LET t == ParseTime(prayer.time)
  IN  [hour |-> t.hours, minute |-> t.minutes,
       prayerId |-> prayer.id, prayerName |-> prayer.prayer_name,
       ringtoneUri |-> OrElse(global, prayer.ringtone_uri),
       categoryId |-> "prayer_alarm"]

\* the request scheduleNotificationAsync is given for one enabled reminder
Notification(prayer, global) ==
  LET t == ParseTime(prayer.time)
  IN  [hour        |-> t.hours,
       minute      |-> t.minutes,
       prayerId    |-> prayer.id,
       prayerName  |-> prayer.prayer_name,
       ringtoneUri |-> OrElse(prayer.ringtone_uri, global),
       categoryId  |-> "prayer_alarm"]

\* prayers.forEach(async (prayer) => { if (!prayer.enabled) return; ... })
RECURSIVE ScheduleRequests(_, _)
ScheduleRequests(list, global) ==
  IF list = <<>> THEN EmptyBag
  ELSE (IF Head(list).enabled
          THEN One(Notification(Head(list), global))
          ELSE EmptyBag) (+) ScheduleRequests(Tail(list), global)

\* a call of scheduleNotifications made with the closure (list, global): the
\* cancelAll it awaits first, or nothing on the web
RescheduleCall(list, global, owner) ==
  IF PlatformOS = "web" THEN EmptyBag
  ELSE One([list |-> list, global |-> global, owner |-> owner])

\* the effect on [scheduleNotifications, prayers.length]
RescheduleEffect(list, global) ==
  IF Len(list) > 0 THEN RescheduleCall(list, global, "effect") ELSE EmptyBag

\* a fetchPrayers / fetchGlobalRingtone call up to its await
FetchCall == One([pc |-> "request", data |-> <<>>])

RingFetchCall == One([pc |-> "request", data |-> Null])

Quiescent ==
  /\ cancels = EmptyBag
  /\ schedReqs = EmptyBag
  /\ fetches = EmptyBag
  /\ ringFetches = EmptyBag
  /\ toggles = EmptyBag

\* the history before the first toggle; failed: the write of a toggle has
\* failed since
NoToggle ==
  [id |-> Null, quiet |-> FALSE, enabled |-> FALSE, row |-> FALSE, count |-> 0,
   failed |-> FALSE]

\* calls in flight
InFlight ==
  BagCardinality(cancels) + BagCardinality(schedReqs) + BagCardinality(fetches)
    + BagCardinality(ringFetches) + BagCardinality(toggles)

\* --------------------------------------------------------------- Init
InitSched ==
  /\ remote \in { t \in [Ids -> SeedRows] : \A i \in Ids : t[i].id = i }
  /\ prayers = <<>>
  /\ loading = FALSE
  /\ updating = Null
  /\ globalRingtone = Null
  /\ mounted = FALSE
  /\ scheduled = EmptyBag
  /\ cancels = EmptyBag
  /\ schedReqs = EmptyBag
  /\ fetches = EmptyBag
  /\ ringFetches = EmptyBag
  /\ toggles = EmptyBag
  /\ nOps = 0
  /\ nFaults = 0
  /\ before = NoToggle
  /\ again = "none"

InitAlarm ==
  /\ playingSound = NoSound
  /\ activeAlarmId = Null
  /\ sounds = <<>>
  /\ tray = {}
  /\ recvs = EmptyBag
  /\ resps = EmptyBag
  /\ nAlarm = 0

\* useState(...) of HomeScreen
InitHome ==
  /\ balance = 0
  /\ newBalance = <<>>
  /\ homeLoading = TRUE
  /\ homeUpdating = FALSE
  /\ modal = "none"
  /\ calls = EmptyBag
  /\ homeMounted = FALSE
  /\ nHomeOps = 0

\* useState(...) of SavingsScreen
InitSavingsScreen ==
  /\ savings = <<>>
  /\ totalSavings = 0
  /\ savLoading = TRUE
  /\ savAdding = FALSE
  /\ savAmount = <<>>
  /\ savDescription = ""
  /\ savCalls = EmptyBag
  /\ savMounted = FALSE
  /\ nSavOps = 0

\* useState(...) of ExpensesScreen
InitExpensesScreen ==
  /\ expenses = <<>>
  /\ expLoading = TRUE
  /\ expAdding = FALSE
  /\ expenseType = "daily"
  /\ expName = ""
  /\ expAmount = <<>>
  /\ selectedDate = "2025-01-15"
  /\ expCalls = EmptyBag
  /\ expMounted = FALSE
  /\ nExpOps = 0

\* no conversion asked for
NoConversion == [kind |-> "none", time |-> <<>>, isPM |-> FALSE]

InitConvIdle ==
  /\ convArg = NoConversion
  /\ convVal = NoConversion
  /\ convTrace = <<>>

\* the parts modelled after the expenses screen, at rest
\* useState(...) of the time editor
InitEdit ==
  /\ editingTimeId = Null
  /\ timeInput = <<>>
  /\ isPM = FALSE
  /\ timeEdits = EmptyBag
  /\ nEditOps = 0

\* the calls the mount effect of AuthProvider starts
StartupCalls == One([op |-> "checkAuthStatus", pc |-> "get", via |-> "effect",
                     username |-> "", password |-> "", prompt |-> "none"])

\* useState(...) of AuthProvider and LoginScreen, the initial route, and the
\* mount effect of AuthProvider
InitAuthApp ==
  /\ isAuthenticated = FALSE
  /\ isLoading = TRUE
  /\ segments = "(tabs)"
  /\ navs = <<>>
  /\ username = ""
  /\ password = ""
  /\ loginLoading = FALSE
  /\ fingerprintAvailable = FALSE
  /\ authCalls = StartupCalls
  /\ nAuthOps = 0
  /\ nAuthFaults = 0
  /\ restarts = 0

\* the auth gate on a device without biometrics, an empty users table and
\* an empty AsyncStorage
InitAuthIdle ==
  /\ usersRows = <<>>
  /\ biometrics = [hardware |-> FALSE, enrolled |-> FALSE]
  /\ storage = [isAuthenticated |-> Null, username |-> Null]
  /\ InitAuthApp

\* no ringtone is being picked
InitPick ==
  /\ picks = EmptyBag
  /\ nPickOps = 0

\* no dialog on the screen
NoConfig == [type |-> "null", title |-> "", table |-> Null, id |-> 0]

\* useState(...) of ModalProvider and of WorkTrackerScreen, on an empty table
InitDialog ==
  /\ visible = FALSE
  /\ config = NoConfig
  /\ hides = EmptyBag
  /\ shows = 0
  /\ deletes = EmptyBag
  /\ workRows = <<>>
  /\ workEntries = <<>>
  /\ workLoading = TRUE
  /\ workCalls = EmptyBag
  /\ workMounted = FALSE
  /\ nDlgOps = 0

\* the permission granted and never asked for
InitPerm ==
  /\ permission = "granted"
  /\ permCalls = EmptyBag
  /\ prompts = 0
  /\ permAlerts = 0
  /\ nPermOps = 0

InitLast ==
  /\ InitDialog
  /\ InitPerm

InitLater ==
  /\ InitConvIdle
  /\ InitEdit
  /\ InitAuthIdle
  /\ InitPick
  /\ InitLast

\* the later screens at rest, on empty tables
InitMore ==
  /\ savingsRows = <<>>
  /\ InitSavingsScreen
  /\ expensesRows = <<>>
  /\ InitExpensesScreen
  /\ InitLater

\* ------------------------------------------------------------ actions
\* the mount effect: fetchPrayers(); fetchGlobalRingtone(); and the
\* reschedule effect's first run
Mount ==
  /\ ~mounted
  /\ mounted' = TRUE
  /\ loading' = TRUE
  /\ fetches' = fetches (+) FetchCall
  /\ ringFetches' = ringFetches (+) RingFetchCall
  /\ cancels' = cancels (+) RescheduleEffect(prayers, globalRingtone)
  /\ UNCHANGED <<remote, prayers, updating, globalRingtone, scheduled,
                 schedReqs, toggles, nOps, nFaults, before, again>>
  /\ UNCHANGED <<alarmVars, homeVars, moreVars, event>>

\* the select of fetchPrayers is answered by the remote store
FetchServe(f) ==
  /\ f.pc = "request"
  /\ \/ \E data \in SelectOrdered(remote) :
          /\ fetches' = (fetches (-) One(f)) (+) One([pc |-> "data", data |-> data])
          /\ UNCHANGED nFaults
     \/ /\ nFaults < MaxFaults
        /\ nFaults' = nFaults + 1
        /\ fetches' = (fetches (-) One(f)) (+) One([pc |-> "error", data |-> <<>>])
  /\ UNCHANGED <<remote, prayers, loading, updating, globalRingtone, mounted,
                 scheduled, cancels, schedReqs, ringFetches, toggles, nOps, before, again>>
  /\ UNCHANGED <<alarmVars, homeVars, moreVars, event>>

\* fetchPrayers after its await: setPrayers(data) or the alert, then
\* setLoading(false); the new list re-runs the reschedule effect
FetchDone(f) ==
  /\ f.pc # "request"
  /\ fetches' = fetches (-) One(f)
  /\ loading' = FALSE
  /\ IF f.pc = "data"
       THEN /\ prayers' = f.data
            /\ cancels' = cancels (+) RescheduleEffect(f.data, globalRingtone)
       ELSE UNCHANGED <<prayers, cancels>>
  /\ UNCHANGED <<remote, updating, globalRingtone, mounted, scheduled,
                 schedReqs, ringFetches, toggles, nOps, nFaults, before, again>>
  /\ UNCHANGED <<alarmVars, homeVars, moreVars, event>>

\* select('ringtone_uri').limit(1).single() is answered with some row.  A
\* failed select is handled as a row without ringtone is (!error &&
\* data?.ringtone_uri), so it is the answer Null.
RingFetchServe(f) ==
  /\ f.pc = "request"
  /\ \E i \in Ids :
       ringFetches' = (ringFetches (-) One(f))
                        (+) One([pc |-> "data", data |-> remote[i].ringtone_uri])
  /\ UNCHANGED <<remote, prayers, loading, updating, globalRingtone, mounted,
                 scheduled, cancels, schedReqs, fetches, toggles, nOps, nFaults,
                 before, again>>
  /\ UNCHANGED <<alarmVars, homeVars, moreVars, event>>

\* fetchGlobalRingtone after its await.  A changed globalRingtone re-runs the
\* mount effect (fetchPrayers, fetchGlobalRingtone) and the reschedule effect.
RingFetchDone(f) ==
  /\ f.pc # "request"
  /\ IF f.pc = "data" /\ Truthy(f.data) /\ f.data # globalRingtone
       THEN /\ globalRingtone' = f.data
            /\ loading' = TRUE
            /\ fetches' = fetches (+) FetchCall
            /\ ringFetches' = (ringFetches (-) One(f)) (+) RingFetchCall
            /\ cancels' = cancels (+) RescheduleEffect(prayers, f.data)
       ELSE /\ ringFetches' = ringFetches (-) One(f)
            /\ UNCHANGED <<globalRingtone, loading, fetches, cancels>>
  /\ UNCHANGED <<remote, prayers, updating, mounted, scheduled, schedReqs,
                 toggles, nOps, nFaults, before, again>>
  /\ UNCHANGED <<alarmVars, homeVars, moreVars, event>>

\* cancelAllScheduledNotificationsAsync resolves: the schedule is empty, the
\* forEach issues one request per enabled reminder without awaiting any, and
\* scheduleNotifications returns; handleToggleEnabled, when it awaited the
\* call, runs its finally block
CancelDone(c) ==
  /\ cancels' = cancels (-) One(c)
  /\ scheduled' = EmptyBag
  /\ schedReqs' = schedReqs (+) ScheduleRequests(c.list, c.global)
  /\ IF c.owner = "effect"
       THEN UNCHANGED updating
       ELSE updating' = Null
  /\ UNCHANGED <<remote, prayers, loading, globalRingtone, mounted, fetches,
                 ringFetches, toggles, nOps, nFaults, before, again>>
  /\ UNCHANGED <<alarmVars, homeVars, moreVars, event>>

\* the OS applies one scheduleNotificationAsync request
ScheduleApply(n) ==
  /\ schedReqs' = schedReqs (-) One(n)
  /\ scheduled' = scheduled (+) One(n)
  /\ UNCHANGED <<remote, prayers, loading, updating, globalRingtone, mounted,
                 cancels, fetches, ringFetches, toggles, nOps, nFaults, before, again>>
  /\ UNCHANGED <<alarmVars, homeVars, moreVars, event>>

\* handleToggleEnabled(prayer.id, prayer.enabled) up to its await: the button
\* of row i is pressed
ToggleStart(i) ==
  /\ mounted /\ ~loading
  /\ updating # prayers[i].id
  /\ nOps < MaxOps
  /\ InFlight <= MaxBusy
  /\ nOps' = nOps + 1
  /\ updating' = prayers[i].id
  /\ prayers' = togglePrayerEnabled(prayers, prayers[i].id)
  /\ cancels' = cancels (+) RescheduleEffect(prayers', globalRingtone)
  /\ toggles' = toggles (+) One([id |-> prayers[i].id, enabled |-> prayers[i].enabled,
                                list |-> prayers, global |-> globalRingtone,
                                pc |-> "request"])
  /\ before' = IF nOps = 0
                 THEN [id      |-> prayers[i].id,
                       quiet   |-> Quiescent,
                       enabled |-> prayers[i].enabled,
                       row     |-> remote[prayers[i].id].enabled,
                       count   |-> BagCardinality(scheduled),
                       failed  |-> FALSE]
                 ELSE before
  /\ again' = IF nOps = 0 THEN "none"
              ELSE IF nOps = 1 /\ prayers[i].id = before.id /\ Quiescent
                     THEN "same" ELSE "other"
  /\ UNCHANGED <<remote, loading, globalRingtone, mounted, scheduled,
                 schedReqs, fetches, ringFetches, nFaults>>
  /\ UNCHANGED <<alarmVars, homeVars, moreVars, event>>

\* update({enabled: !enabled}).eq('id', id) is answered by the remote store
ToggleServe(t) ==
  /\ t.pc = "request"
  /\ \/ /\ remote' = [remote EXCEPT ![t.id].enabled = ~t.enabled]
        /\ toggles' = (toggles (-) One(t)) (+) One([t EXCEPT !.pc = "ok"])
        /\ UNCHANGED nFaults
     \/ /\ nFaults < MaxFaults
        /\ nFaults' = nFaults + 1
        /\ toggles' = (toggles (-) One(t)) (+) One([t EXCEPT !.pc = "error"])
        /\ UNCHANGED remote
  /\ UNCHANGED <<prayers, loading, updating, globalRingtone, mounted, scheduled,
                 cancels, schedReqs, fetches, ringFetches, nOps, before, again>>
  /\ UNCHANGED <<alarmVars, homeVars, moreVars, event>>

\* handleToggleEnabled after its await, the write having succeeded:
\* await scheduleNotifications(), the callback of the render the handler
\* was created in
ToggleOk(t) ==
  /\ t.pc = "ok"
  /\ toggles' = toggles (-) One(t)
  /\ IF PlatformOS = "web"
       THEN /\ updating' = Null
            /\ UNCHANGED cancels
       ELSE /\ cancels' = cancels (+) RescheduleCall(t.list, t.global, t.id)
            /\ UNCHANGED updating
  /\ UNCHANGED <<remote, prayers, loading, globalRingtone, mounted, scheduled,
                 schedReqs, fetches, ringFetches, nOps, nFaults, before, again>>
  /\ UNCHANGED <<alarmVars, homeVars, moreVars, event>>

\* handleToggleEnabled after its await, the write having failed: the revert,
\* the alert, fetchPrayers() unawaited, setUpdating(null)
ToggleError(t) ==
  /\ t.pc = "error"
  /\ toggles' = toggles (-) One(t)
  /\ prayers' = togglePrayerEnabled(prayers, t.id)
  /\ cancels' = cancels (+) RescheduleEffect(prayers', globalRingtone)
  /\ loading' = TRUE
  /\ fetches' = fetches (+) FetchCall
  /\ updating' = Null
  /\ before' = [before EXCEPT !.failed = TRUE]
  /\ UNCHANGED <<remote, globalRingtone, mounted, scheduled, schedReqs,
                 ringFetches, nOps, nFaults, again>>
  /\ UNCHANGED <<alarmVars, homeVars, moreVars, event>>

\* the reschedule effect runs on its own: a render gave it a new
\* scheduleNotifications callback
RescheduleNow ==
  /\ mounted
  /\ nOps < MaxOps
  /\ InFlight < MaxBusy
  /\ nOps' = nOps + 1
  /\ cancels' = cancels (+) RescheduleEffect(prayers, globalRingtone)
  /\ UNCHANGED <<remote, prayers, loading, updating, globalRingtone, mounted,
                 scheduled, schedReqs, fetches, ringFetches, toggles, nFaults,
                 before, again>>
  /\ UNCHANGED <<alarmVars, homeVars, moreVars, event>>

Next ==
  \/ Mount
  \/ \E f \in BagToSet(fetches) : FetchServe(f)
  \/ \E f \in BagToSet(fetches) : FetchDone(f)
  \/ \E f \in BagToSet(ringFetches) : RingFetchServe(f)
  \/ \E f \in BagToSet(ringFetches) : RingFetchDone(f)
  \/ \E c \in BagToSet(cancels) : CancelDone(c)
  \/ \E n \in BagToSet(schedReqs) : ScheduleApply(n)
  \/ \E i \in 1..Len(prayers) : ToggleStart(i)
  \/ \E t \in BagToSet(toggles) : ToggleServe(t)
  \/ \E t \in BagToSet(toggles) : ToggleOk(t)
  \/ \E t \in BagToSet(toggles) : ToggleError(t)

Init ==
  /\ InitSched
  /\ InitAlarm
  /\ InitHome
  /\ balanceRows = <<>>
  /\ event = [kind |-> "none"]
  /\ InitMore

Spec == Init /\ [][Next]_vars

\* ---------------------------------------------- scheduleNotifications alone
\* The screen is mounted and loaded with any list of reminders and any global
\* ringtone; the OS still holds one notification of an earlier session.
InputTimes == { <<"0", "0", ":", "0", "0">>, <<"2", "3", ":", "5", "9">> }

InputRingtones == {Null, "", "file:own.mp3"}

InputGlobals == {Null, "file:global.mp3"}

InputLists ==
  { l \in [1..NumPrayers ->
             [id : Ids, prayer_name : RangeOf(PrayerNames), time : InputTimes,
              enabled : BOOLEAN, ringtone_uri : InputRingtones]] :
      \A k \in 1..NumPrayers :
        l[k].id = PrayerIds[k] /\ l[k].prayer_name = PrayerNames[k] }

StaleNotification ==
  [hour |-> 4, minute |-> 15, prayerId |-> PrayerIds[1],
   prayerName |-> PrayerNames[1], ringtoneUri |-> Null,
   categoryId |-> "prayer_alarm"]

InitReschedule ==
  /\ prayers \in InputLists
  /\ globalRingtone \in InputGlobals
  /\ remote = [i \in Ids |-> prayers[CHOOSE k \in 1..NumPrayers : prayers[k].id = i]]
  /\ loading = FALSE
  /\ updating = Null
  /\ mounted = TRUE
  /\ scheduled = One(StaleNotification)
  /\ cancels = EmptyBag
  /\ schedReqs = EmptyBag
  /\ fetches = EmptyBag
  /\ ringFetches = EmptyBag
  /\ toggles = EmptyBag
  /\ nOps = 0
  /\ nFaults = 0
  /\ before = NoToggle
  /\ again = "none"
  /\ InitAlarm
  /\ InitHome
  /\ balanceRows = <<>>
  /\ event = [kind |-> "none"]
  /\ InitMore

NextReschedule ==
  \/ RescheduleNow
  \/ \E c \in BagToSet(cancels) : CancelDone(c)
  \/ \E n \in BagToSet(schedReqs) : ScheduleApply(n)

SpecReschedule == InitReschedule /\ [][NextReschedule]_vars

\* ------------------------------------------------------------ alarm player
\* The listeners of the mount effect and the two callbacks they close over.
\* A listener is replaced by the effect whenever playingSound or
\* globalRingtone changes, so an event is handled with the values of the
\* current render; a handler in flight keeps the values it started with.

MaxAlarmEvents == 3   \* deliveries, responses and ringtone changes

DEFAULT_ACTION_IDENTIFIER == "expo.modules.notifications.actions.DEFAULT"

ActionIdentifiers == {"STOP_ALARM", DEFAULT_ACTION_IDENTIFIER, "SNOOZE"}

\* the notification contents the listeners are exercised with
DeliveredContents ==
  { [categoryId |-> "prayer_alarm", prayerId |-> "p1", ringtoneUri |-> "file:own.mp3"],
    [categoryId |-> "prayer_alarm", prayerId |-> "p2", ringtoneUri |-> Null],
    [categoryId |-> "prayer_alarm", prayerId |-> Null, ringtoneUri |-> "file:own.mp3"],
    [categoryId |-> "reminder", prayerId |-> "p1", ringtoneUri |-> "file:own.mp3"] }

Loaded(snds, s) == snds[s].status = "loaded"

\* Audio.Sound.createAsync({uri}, {shouldPlay: true, isLooping: true}), asked
NewSound(uri) ==
  [uri |-> uri, status |-> "creating", playing |-> FALSE, looping |-> TRUE]

\* ... and done: the sound is loaded and, with shouldPlay, playing
CreatedSound(snds, s) ==
  [snds EXCEPT ![s].status = "loaded", ![s].playing = TRUE]

\* sound.stopAsync() on a loaded sound
StopAsync(snds, s) == [snds EXCEPT ![s].playing = FALSE]

\* sound.unloadAsync(): releases a loaded sound, nothing on an unloaded one
UnloadAsync(snds, s) ==
  IF Loaded(snds, s)
    THEN [snds EXCEPT ![s].status = "unloaded", ![s].playing = FALSE]
    ELSE snds

\* cleanup of the effects that depend on playingSound, run with the
\* playingSound of the render that is being replaced
CleanupSound(snds, rendered) ==
  IF rendered # NoSound THEN UnloadAsync(snds, rendered) ELSE snds

\* the ringtone resolution the wrong way round
ResolvedRingtoneGlobalFirst(ringtoneUri, global) ==
  IF Truthy(global) THEN global
  ELSE IF Truthy(ringtoneUri) THEN ringtoneUri
  ELSE Null

\* the uri the received listener hands to playAlarmSound, Null when it
\* does not call it
ResolvedRingtone(ringtoneUri, global) ==
  IF Truthy(ringtoneUri) THEN ringtoneUri
  ELSE IF Truthy(global) THEN global
  ELSE Null

\* the response test without the default action
ShouldStopButtonOnly(actionIdentifier, categoryId) ==
  /\ actionIdentifier = "STOP_ALARM"
  /\ categoryId = "prayer_alarm"

\* the test of the response listener
ShouldStop(actionIdentifier, categoryId) ==
  /\ actionIdentifier = "STOP_ALARM" \/ actionIdentifier = DEFAULT_ACTION_IDENTIFIER
  /\ categoryId = "prayer_alarm"

\* playAlarmSound(uri) up to its first await
PlayAlarmSound(uri) ==
  IF playingSound # NoSound
    THEN IF Loaded(sounds, playingSound)
           THEN /\ sounds' = StopAsync(sounds, playingSound)
                /\ recvs' = recvs (+) One([pc |-> "stopped", old |-> playingSound,
                                           uri |-> uri, new |-> 0])
           ELSE \* stopAsync rejects: sound is not loaded; caught and logged
                UNCHANGED <<sounds, recvs>>
    ELSE /\ sounds' = Append(sounds, NewSound(uri))
         /\ recvs' = recvs (+) One([pc |-> "creating", old |-> NoSound,
                                    uri |-> uri, new |-> Len(sounds) + 1])

\* a notification is delivered while the screen is mounted
Deliver(content) ==
  /\ mounted
  /\ nAlarm < MaxAlarmEvents
  /\ LET n == [identifier |-> nAlarm + 1, categoryId |-> content.categoryId,
               prayerId |-> content.prayerId, ringtoneUri |-> content.ringtoneUri]
         uri == ResolvedRingtone(n.ringtoneUri, globalRingtone)
     IN /\ tray' = tray \cup {n}
        /\ event' = [kind |-> "deliver", n |-> n]
        /\ IF n.categoryId = "prayer_alarm" /\ Truthy(n.prayerId)
             THEN /\ activeAlarmId' = n.prayerId
                  /\ IF uri = Null THEN UNCHANGED <<sounds, recvs>>
                                   ELSE PlayAlarmSound(uri)
             ELSE UNCHANGED <<activeAlarmId, sounds, recvs>>
  /\ nAlarm' = nAlarm + 1
  /\ UNCHANGED <<playingSound, resps, globalRingtone, mounted, nFaults>>
  /\ UNCHANGED <<schedOnlyVars, homeVars, moreVars>>

\* playAlarmSound after await stopAsync
RecvStopped(h) ==
  /\ h.pc = "stopped"
  /\ sounds' = UnloadAsync(sounds, h.old)
  /\ recvs' = (recvs (-) One(h)) (+) One([h EXCEPT !.pc = "unloaded"])
  /\ event' = [kind |-> "step"]
  /\ UNCHANGED <<playingSound, activeAlarmId, tray, resps, nAlarm,
                 globalRingtone, mounted, nFaults>>
  /\ UNCHANGED <<schedOnlyVars, homeVars, moreVars>>

\* playAlarmSound after await unloadAsync
RecvUnloaded(h) ==
  /\ h.pc = "unloaded"
  /\ sounds' = Append(sounds, NewSound(h.uri))
  /\ recvs' = (recvs (-) One(h))
                (+) One([h EXCEPT !.pc = "creating", !.new = Len(sounds) + 1])
  /\ event' = [kind |-> "step"]
  /\ UNCHANGED <<playingSound, activeAlarmId, tray, resps, nAlarm,
                 globalRingtone, mounted, nFaults>>
  /\ UNCHANGED <<schedOnlyVars, homeVars, moreVars>>

\* the player has loaded the sound createAsync asked for and, with
\* shouldPlay, started it; the promise is yet to resolve
RecvLoaded(h) ==
  /\ h.pc = "creating"
  /\ sounds' = CreatedSound(sounds, h.new)
  /\ recvs' = (recvs (-) One(h)) (+) One([h EXCEPT !.pc = "created"])
  /\ event' = [kind |-> "step"]
  /\ UNCHANGED <<playingSound, activeAlarmId, tray, resps, nAlarm,
                 globalRingtone, mounted, nFaults>>
  /\ UNCHANGED <<schedOnlyVars, homeVars, moreVars>>

\* playAlarmSound after await createAsync: setPlayingSound(newSound) and the
\* render it causes
RecvCreated(h) ==
  /\ h.pc = "created"
  /\ IF mounted
       THEN /\ playingSound' = h.new
            /\ sounds' = CleanupSound(sounds, playingSound)
       ELSE UNCHANGED <<playingSound, sounds>>
  /\ recvs' = recvs (-) One(h)
  /\ event' = [kind |-> "created", sound |-> h.new]
  /\ UNCHANGED <<activeAlarmId, tray, resps, nAlarm, globalRingtone, mounted,
                 nFaults>>
  /\ UNCHANGED <<schedOnlyVars, homeVars, moreVars>>

\* createAsync rejects; caught and logged
RecvCreateFailed(h) ==
  /\ h.pc = "creating"
  /\ nFaults < MaxFaults
  /\ nFaults' = nFaults + 1
  /\ sounds' = [sounds EXCEPT ![h.new].status = "failed"]
  /\ recvs' = recvs (-) One(h)
  /\ event' = [kind |-> "step"]
  /\ UNCHANGED <<playingSound, activeAlarmId, tray, resps, nAlarm,
                 globalRingtone, mounted>>
  /\ UNCHANGED <<schedOnlyVars, homeVars, moreVars>>

\* stopAlarm() up to its first await, or, with nothing playing, to its end
\* and on to the dismiss call
StopAlarm(n) ==
  IF playingSound # NoSound
    THEN IF Loaded(sounds, playingSound)
           THEN /\ sounds' = StopAsync(sounds, playingSound)
                /\ resps' = resps (+) One([pc |-> "stopped", sound |-> playingSound,
                                           n |-> n])
                /\ UNCHANGED activeAlarmId
           ELSE \* stopAsync rejects, and with it the listener
                UNCHANGED <<sounds, resps, activeAlarmId>>
    ELSE /\ activeAlarmId' = Null
         /\ resps' = resps (+) One([pc |-> "dismissing", sound |-> NoSound, n |-> n])
         /\ UNCHANGED sounds

\* the user acts on a notification of the tray
Respond(n, actionIdentifier) ==
  /\ mounted
  /\ nAlarm < MaxAlarmEvents
  /\ n \in tray
  /\ nAlarm' = nAlarm + 1
  /\ event' = [kind |-> "respond", n |-> n, action |-> actionIdentifier]
  /\ IF ShouldStop(actionIdentifier, n.categoryId) /\ Truthy(n.prayerId)
       THEN StopAlarm(n)
       ELSE UNCHANGED <<sounds, resps, activeAlarmId>>
  /\ UNCHANGED <<playingSound, tray, recvs, globalRingtone, mounted, nFaults>>
  /\ UNCHANGED <<schedOnlyVars, homeVars, moreVars>>

\* stopAlarm after await stopAsync
RespStopped(h) ==
  /\ h.pc = "stopped"
  /\ sounds' = UnloadAsync(sounds, h.sound)
  /\ resps' = (resps (-) One(h)) (+) One([h EXCEPT !.pc = "unloaded"])
  /\ event' = [kind |-> "step"]
  /\ UNCHANGED <<playingSound, activeAlarmId, tray, recvs, nAlarm,
                 globalRingtone, mounted, nFaults>>
  /\ UNCHANGED <<schedOnlyVars, homeVars, moreVars>>

\* stopAlarm after await unloadAsync: setPlayingSound(null),
\* setActiveAlarmId(null), the render, and the dismiss call of the listener
RespUnloaded(h) ==
  /\ h.pc = "unloaded"
  /\ IF mounted
       THEN /\ playingSound' = NoSound
            /\ activeAlarmId' = Null
            /\ sounds' = CleanupSound(sounds, playingSound)
       ELSE UNCHANGED <<playingSound, activeAlarmId, sounds>>
  /\ resps' = (resps (-) One(h)) (+) One([h EXCEPT !.pc = "dismissing"])
  /\ event' = [kind |-> "stopped", sound |-> h.sound]
  /\ UNCHANGED <<tray, recvs, nAlarm, globalRingtone, mounted, nFaults>>
  /\ UNCHANGED <<schedOnlyVars, homeVars, moreVars>>

\* dismissNotificationAsync(identifier) settles
RespDismissed(h) ==
  /\ h.pc = "dismissing"
  /\ tray' = tray \ {h.n}
  /\ resps' = resps (-) One(h)
  /\ event' = [kind |-> "dismissed", n |-> h.n]
  /\ UNCHANGED <<playingSound, activeAlarmId, sounds, recvs, nAlarm,
                 globalRingtone, mounted, nFaults>>
  /\ UNCHANGED <<schedOnlyVars, homeVars, moreVars>>

\* the store's globalRingtone changes: the mount effect is cleaned up and
\* run again
GlobalRingtoneSet(uri) ==
  /\ mounted
  /\ nAlarm < MaxAlarmEvents
  /\ Truthy(uri)
  /\ uri # globalRingtone
  /\ globalRingtone' = uri
  /\ sounds' = CleanupSound(sounds, playingSound)
  /\ nAlarm' = nAlarm + 1
  /\ event' = [kind |-> "ringtone"]
  /\ UNCHANGED <<playingSound, activeAlarmId, tray, recvs, resps, mounted,
                 nFaults>>
  /\ UNCHANGED <<schedOnlyVars, homeVars, moreVars>>

\* the screen is unmounted: both cleanups run
Unmount ==
  /\ mounted
  /\ mounted' = FALSE
  /\ sounds' = CleanupSound(sounds, playingSound)
  /\ event' = [kind |-> "unmount"]
  /\ UNCHANGED <<playingSound, activeAlarmId, tray, recvs, resps, nAlarm,
                 globalRingtone, nFaults>>
  /\ UNCHANGED <<schedOnlyVars, homeVars, moreVars>>

InitAlarmScreen ==
  /\ remote \in { t \in [Ids -> SeedRows] :
                    \A i \in Ids : t[i].id = i /\ t[i].enabled }
  /\ prayers \in SelectOrdered(remote)
  /\ loading = FALSE
  /\ updating = Null
  /\ globalRingtone \in InputGlobals
  /\ mounted = TRUE
  /\ scheduled = EmptyBag
  /\ cancels = EmptyBag
  /\ schedReqs = EmptyBag
  /\ fetches = EmptyBag
  /\ ringFetches = EmptyBag
  /\ toggles = EmptyBag
  /\ nOps = 0
  /\ nFaults = 0
  /\ before = NoToggle
  /\ again = "none"
  /\ InitAlarm
  /\ InitHome
  /\ balanceRows = <<>>
  /\ event = [kind |-> "none"]
  /\ InitMore

NextAlarm ==
  \/ \E content \in DeliveredContents : Deliver(content)
  \/ \E h \in BagToSet(recvs) : RecvStopped(h)
  \/ \E h \in BagToSet(recvs) : RecvUnloaded(h)
  \/ \E h \in BagToSet(recvs) : RecvLoaded(h)
  \/ \E h \in BagToSet(recvs) : RecvCreated(h)
  \/ \E h \in BagToSet(recvs) : RecvCreateFailed(h)
  \/ \E n \in tray : \E a \in ActionIdentifiers : Respond(n, a)
  \/ \E h \in BagToSet(resps) : RespStopped(h)
  \/ \E h \in BagToSet(resps) : RespUnloaded(h)
  \/ \E h \in BagToSet(resps) : RespDismissed(h)
  \/ \E uri \in InputGlobals : GlobalRingtoneSet(uri)
  \/ Unmount

SpecAlarm == InitAlarmScreen /\ [][NextAlarm]_vars

\* ------------------------------------------------------------ balance screen
\* HomeScreen: fetchBalance and updateBalance against the balance table.
\* Amounts are counted in hundredths, so that 4250 stands for 42.50.

MaxHomeOps == 2       \* presses of the refresh and the update button

\* the result of parseFloat
NotANumber == [nan |-> TRUE, value |-> 0]

AsNumber(v) == [nan |-> FALSE, value |-> v]

isNaN(x) == x.nan

\* the leading digits of s
RECURSIVE DigitPrefix(_)
DigitPrefix(s) ==
  IF s = <<>> \/ ~IsDigit(Head(s)) THEN <<>>
  ELSE <<Head(s)>> \o DigitPrefix(Tail(s))

\* the hundredths two fraction digits stand for
Hundredths(frac) ==
  IF frac = <<>> THEN 0
  ELSE IF Len(frac) = 1 THEN 10 * DigitVal(frac[1])
  ELSE 10 * DigitVal(frac[1]) + DigitVal(frac[2])

\* parseFloat(s): an optional sign, digits, an optional fraction; what
\* follows is ignored, and without a digit the result is NaN
parseFloat(s) ==
  LET signed   == s # <<>> /\ Head(s) \in {"-", "+"}
      unsigned == IF signed THEN Tail(s) ELSE s
      int      == DigitPrefix(unsigned)
      rest     == SubSeq(unsigned, Len(int) + 1, Len(unsigned))
      frac     == IF rest # <<>> /\ Head(rest) = "."
                    THEN DigitPrefix(Tail(rest)) ELSE <<>>
      size     == (IF int = <<>> THEN 0 ELSE 100 * DecValue(int)) + Hundredths(frac)
  IN  IF int = <<>> /\ frac = <<>> THEN NotANumber
      ELSE AsNumber(IF signed /\ Head(s) = "-" THEN 0 - size ELSE size)

\* the decimal digits of a natural number
RECURSIVE DigitsOf(_)
DigitsOf(n) ==
  IF n < 10 THEN <<Digits[n + 1]>>
  ELSE DigitsOf(n \div 10) \o <<Digits[(n % 10) + 1]>>

\* Number.prototype.toString of an amount that is not negative
toString(v) ==
  LET int  == DigitsOf(v \div 100)
      frac == v % 100
  IN  IF frac = 0 THEN int
      ELSE IF frac % 10 = 0 THEN int \o <<".">> \o DigitsOf(frac \div 10)
      ELSE int \o <<".", Digits[(frac \div 10) + 1], Digits[(frac % 10) + 1]>>

\* Number.prototype.toFixed(2) of an amount that is not negative
toFixed2(v) ==
  DigitsOf(v \div 100)
    \o <<".", Digits[((v % 100) \div 10) + 1], Digits[(v % 10) + 1]>>

\* what the user types or picks, QUICK_PRESETS among it
InputTexts ==
  { <<>>, <<"0">>, <<"a", "b">>, <<"2", ".", "5">>, <<"1", "5", "0">> }

\* the tables the screen is opened on
SeedBalances == { <<>>, <<[id |-> 1, amount |-> 4250]>> }

\* const isValidAmount = ...
isValidAmount(text) ==
  /\ Len(text) > 0
  /\ ~isNaN(parseFloat(text))
  /\ parseFloat(text).value > 0

\* the error test that lets every error pass for an empty table
RethrownNever(error) == FALSE

\* if (error && error.code !== 'PGRST116') throw error
Rethrown(error) == error # "none" /\ error # "PGRST116"

\* select('amount') of fetchBalance, select('id') of updateBalance
Selected(row, fn) ==
  IF fn = "fetchBalance" THEN [amount |-> row.amount] ELSE [id |-> row.id]

\* the answers of select(...).limit(1).single() on the table
SelectSingle(rows, fn) ==
  IF rows = <<>> THEN { [data |-> <<>>, error |-> "PGRST116"] }
  ELSE { [data |-> <<Selected(rows[k], fn)>>, error |-> "none"] :
           k \in 1..Len(rows) }

Failed == [data |-> <<>>, error |-> "failed"]

\* setBalance(parseFloat(row.amount.toString()))
Displayed(row) == parseFloat(toString(row.amount)).value

\* fetchBalance() up to its first await
FetchBalanceCall ==
  One([fn |-> "fetchBalance", pc |-> "select", amount |-> 0,
       data |-> <<>>, error |-> "none"])

\* the screen is mounted: the effect calls fetchBalance
HomeMount ==
  /\ ~homeMounted
  /\ homeMounted' = TRUE
  /\ homeLoading' = TRUE
  /\ calls' = calls (+) FetchBalanceCall
  /\ event' = [kind |-> "mount"]
  /\ UNCHANGED <<balanceRows, balance, newBalance, homeUpdating, modal,
                 nHomeOps, nFaults>>
  /\ UNCHANGED <<prayerScreenVars, moreVars>>

\* the refresh button, disabled while loading
Refresh ==
  /\ homeMounted
  /\ ~homeLoading
  /\ nHomeOps < MaxHomeOps
  /\ nHomeOps' = nHomeOps + 1
  /\ homeLoading' = TRUE
  /\ calls' = calls (+) FetchBalanceCall
  /\ event' = [kind |-> "refresh"]
  /\ UNCHANGED <<balanceRows, balance, newBalance, homeUpdating, modal,
                 homeMounted, nFaults>>
  /\ UNCHANGED <<prayerScreenVars, moreVars>>

\* the amount field, its clear button and the presets
SetNewBalance(text) ==
  /\ homeMounted
  /\ text # newBalance
  /\ newBalance' = text
  /\ event' = [kind |-> "type"]
  /\ UNCHANGED <<balanceRows, balance, homeLoading, homeUpdating, modal,
                 calls, homeMounted, nHomeOps, nFaults>>
  /\ UNCHANGED <<prayerScreenVars, moreVars>>

\* the update button, disabled unless the amount is valid and no update
\* runs; updateBalance() up to its first await
UpdateBalanceStart ==
  /\ homeMounted
  /\ isValidAmount(newBalance)
  /\ ~homeUpdating
  /\ nHomeOps < MaxHomeOps
  /\ nHomeOps' = nHomeOps + 1
  /\ LET amount == parseFloat(newBalance)
     IN  IF isNaN(amount) \/ amount.value <= 0
           THEN /\ modal' = "error"
                /\ UNCHANGED <<homeUpdating, calls>>
           ELSE /\ homeUpdating' = TRUE
                /\ calls' = calls (+) One([fn |-> "updateBalance", pc |-> "select",
                                           amount |-> amount.value,
                                           data |-> <<>>, error |-> "none"])
                /\ UNCHANGED modal
  /\ event' = [kind |-> "update"]
  /\ UNCHANGED <<balanceRows, balance, newBalance, homeLoading, homeMounted,
                 nFaults>>
  /\ UNCHANGED <<prayerScreenVars, moreVars>>

\* the table answers a select
SelectServe(c) ==
  /\ c.pc = "select"
  /\ \E answer \in SelectSingle(balanceRows, c.fn) \cup {Failed} :
       /\ IF answer = Failed
            THEN nFaults < MaxFaults /\ nFaults' = nFaults + 1
            ELSE UNCHANGED nFaults
       /\ calls' = (calls (-) One(c))
                     (+) One([c EXCEPT !.pc = "selected", !.data = answer.data,
                                       !.error = answer.error])
  /\ event' = [kind |-> "served"]
  /\ UNCHANGED <<balanceRows, balance, newBalance, homeLoading, homeUpdating,
                 modal, homeMounted, nHomeOps>>
  /\ UNCHANGED <<prayerScreenVars, moreVars>>

\* fetchBalance after the select
FetchBalanceSelected(c) ==
  /\ c.fn = "fetchBalance"
  /\ c.pc = "selected"
  /\ IF Rethrown(c.error)
       THEN /\ modal' = "error"
            /\ homeLoading' = FALSE
            /\ calls' = calls (-) One(c)
            /\ UNCHANGED balance
       ELSE IF c.data # <<>>
         THEN /\ balance' = Displayed(c.data[1])
              /\ homeLoading' = FALSE
              /\ calls' = calls (-) One(c)
              /\ UNCHANGED modal
         ELSE /\ calls' = (calls (-) One(c))
                            (+) One([c EXCEPT !.pc = "insert", !.amount = 0])
              /\ UNCHANGED <<balance, homeLoading, modal>>
  /\ event' = [kind |-> "fetchBalance.selected", data |-> c.data, error |-> c.error]
  /\ UNCHANGED <<balanceRows, newBalance, homeUpdating, homeMounted, nHomeOps,
                 nFaults>>
  /\ UNCHANGED <<prayerScreenVars, moreVars>>

\* updateBalance after the select
UpdateBalanceSelected(c) ==
  /\ c.fn = "updateBalance"
  /\ c.pc = "selected"
  /\ IF Rethrown(c.error)
       THEN /\ modal' = "error"
            /\ homeUpdating' = FALSE
            /\ calls' = calls (-) One(c)
       ELSE /\ calls' = (calls (-) One(c))
                          (+) One([c EXCEPT !.pc = IF c.data # <<>> THEN "update"
                                                                    ELSE "insert"])
            /\ UNCHANGED <<modal, homeUpdating>>
  /\ event' = [kind |-> "updateBalance.selected", data |-> c.data, error |-> c.error]
  /\ UNCHANGED <<balanceRows, balance, newBalance, homeLoading, homeMounted,
                 nHomeOps, nFaults>>
  /\ UNCHANGED <<prayerScreenVars, moreVars>>

\* the table takes insert({amount}), or refuses it
InsertServe(c) ==
  /\ c.pc = "insert"
  /\ \/ LET row == [id |-> Len(balanceRows) + 1, amount |-> c.amount]
        IN  /\ balanceRows' = Append(balanceRows, row)
            /\ calls' = (calls (-) One(c))
                          (+) One([c EXCEPT !.pc = "written", !.data = <<row>>,
                                            !.error = "none"])
            /\ event' = [kind |-> "insert.served", fn |-> c.fn, error |-> "none"]
            /\ UNCHANGED nFaults
     \/ /\ nFaults < MaxFaults
        /\ nFaults' = nFaults + 1
        /\ calls' = (calls (-) One(c))
                      (+) One([c EXCEPT !.pc = "written", !.data = <<>>,
                                        !.error = "failed"])
        /\ event' = [kind |-> "insert.served", fn |-> c.fn, error |-> "failed"]
        /\ UNCHANGED balanceRows
  /\ UNCHANGED <<balance, newBalance, homeLoading, homeUpdating, modal,
                 homeMounted, nHomeOps>>
  /\ UNCHANGED <<prayerScreenVars, moreVars>>

\* the table takes update({amount}).eq('id', data.id), or refuses it
UpdateServe(c) ==
  /\ c.pc = "update"
  /\ \/ /\ balanceRows' = [k \in 1..Len(balanceRows) |->
                            IF balanceRows[k].id = c.data[1].id
                              THEN [balanceRows[k] EXCEPT !.amount = c.amount]
                              ELSE balanceRows[k]]
        /\ calls' = (calls (-) One(c))
                      (+) One([c EXCEPT !.pc = "written", !.error = "none"])
        /\ UNCHANGED nFaults
     \/ /\ nFaults < MaxFaults
        /\ nFaults' = nFaults + 1
        /\ calls' = (calls (-) One(c))
                      (+) One([c EXCEPT !.pc = "written", !.error = "failed"])
        /\ UNCHANGED balanceRows
  /\ event' = [kind |-> "served"]
  /\ UNCHANGED <<balance, newBalance, homeLoading, homeUpdating, modal,
                 homeMounted, nHomeOps>>
  /\ UNCHANGED <<prayerScreenVars, moreVars>>

\* fetchBalance after the insert
FetchBalanceInserted(c) ==
  /\ c.fn = "fetchBalance"
  /\ c.pc = "written"
  /\ IF c.error # "none"
       THEN modal' = "error" /\ UNCHANGED balance
       ELSE IF c.data # <<>>
         THEN balance' = Displayed(c.data[1]) /\ UNCHANGED modal
         ELSE UNCHANGED <<balance, modal>>
  /\ homeLoading' = FALSE
  /\ calls' = calls (-) One(c)
  /\ event' = [kind |-> "fetchBalance.inserted", data |-> c.data, error |-> c.error]
  /\ UNCHANGED <<balanceRows, newBalance, homeUpdating, homeMounted, nHomeOps,
                 nFaults>>
  /\ UNCHANGED <<prayerScreenVars, moreVars>>

\* updateBalance after the update or the insert
UpdateBalanceWritten(c) ==
  /\ c.fn = "updateBalance"
  /\ c.pc = "written"
  /\ IF c.error # "none"
       THEN modal' = "error" /\ UNCHANGED <<balance, newBalance>>
       ELSE /\ balance' = c.amount
            /\ newBalance' = <<>>
            /\ modal' = "success"
  /\ homeUpdating' = FALSE
  /\ calls' = calls (-) One(c)
  /\ event' = [kind |-> "updateBalance.written", error |-> c.error]
  /\ UNCHANGED <<balanceRows, homeLoading, homeMounted, nHomeOps, nFaults>>
  /\ UNCHANGED <<prayerScreenVars, moreVars>>

InitBalance ==
  /\ balanceRows \in SeedBalances
  /\ InitHome
  /\ InitSched
  /\ \A i \in Ids : remote[i].enabled
  /\ InitAlarm
  /\ event = [kind |-> "none"]
  /\ InitMore

NextBalance ==
  \/ HomeMount
  \/ Refresh
  \/ \E text \in InputTexts \cup {toFixed2(balance)} : SetNewBalance(text)
  \/ UpdateBalanceStart
  \/ \E c \in BagToSet(calls) : SelectServe(c)
  \/ \E c \in BagToSet(calls) : FetchBalanceSelected(c)
  \/ \E c \in BagToSet(calls) : UpdateBalanceSelected(c)
  \/ \E c \in BagToSet(calls) : InsertServe(c)
  \/ \E c \in BagToSet(calls) : UpdateServe(c)
  \/ \E c \in BagToSet(calls) : FetchBalanceInserted(c)
  \/ \E c \in BagToSet(calls) : UpdateBalanceWritten(c)

SpecBalance == InitBalance /\ [][NextBalance]_vars

\* ------------------------------------------------------------ savings screen
\* SavingsScreen: handleAddSavings and fetchSavings against the savings
\* table, whose rows are unique in (month, year): upsert names that pair as
\* its conflict target.

MaxSavOps == 2        \* presses of the add button

MONTHS ==
  <<"January", "February", "March", "April", "May", "June", "July", "August",
    "September", "October", "November", "December">>

\* the month names in the order the table sorts them
MonthsSorted ==
  <<"April", "August", "December", "February", "January", "July", "June",
    "March", "May", "November", "October", "September">>

MonthRank(m) == CHOOSE k \in 1..Len(MonthsSorted) : MonthsSorted[k] = m

\* the months and years the add form is exercised with; "" is no month
\* selected
InputMonths == {"", MONTHS[1], MONTHS[3]}

InputYears == {2025}

InputDescriptions == {"", "rent"}

\* description || null
OrNull(text) == IF text = "" THEN Null ELSE text

SamePair(row, entry) == row.month = entry.month /\ row.year = entry.year

\* upsert(entry, { onConflict: 'month,year' }) without the conflict target
UpsertAppend(rows, entry) ==
  Append(rows, [id |-> Len(rows) + 1, month |-> entry.month, year |-> entry.year,
                amount |-> entry.amount, description |-> entry.description])

\* upsert(entry, { onConflict: 'month,year' })
Upsert(rows, entry) ==
  IF \E k \in 1..Len(rows) : SamePair(rows[k], entry)
    THEN [k \in 1..Len(rows) |->
            IF SamePair(rows[k], entry)
              THEN [rows[k] EXCEPT !.amount = entry.amount,
                                   !.description = entry.description]
              ELSE rows[k]]
    ELSE Append(rows, [id |-> Len(rows) + 1, month |-> entry.month,
                       year |-> entry.year, amount |-> entry.amount,
                       description |-> entry.description])

\* order('year', desc), order('month', desc)
SavingsBefore(a, b) ==
  \/ a.year > b.year
  \/ a.year = b.year /\ MonthRank(a.month) > MonthRank(b.month)

\* select('*') in that order
SavingsOrdered(rows) ==
  CHOOSE s \in [1..Len(rows) -> RangeOf(rows)] :
    /\ \A i, j \in 1..Len(rows) : i < j => SavingsBefore(s[i], s[j])

\* reduce((sum, entry) => sum + parseFloat(entry.amount.toString()), 0)
RECURSIVE SumAmounts(_)
SumAmounts(list) ==
  IF list = <<>> THEN 0
  ELSE parseFloat(toString(Head(list).amount)).value + SumAmounts(Tail(list))

\* the tables the screen is opened on
SeedSavings ==
  { <<>>,
    <<[id |-> 1, month |-> MONTHS[1], year |-> 2025, amount |-> 10000,
       description |-> Null]>> }

\* fetchSavings() up to its await
FetchSavingsCall == One([fn |-> "fetchSavings", pc |-> "select"])

\* the screen is mounted: the effect calls fetchSavings
SavingsMount ==
  /\ ~savMounted
  /\ savMounted' = TRUE
  /\ savLoading' = TRUE
  /\ savCalls' = savCalls (+) FetchSavingsCall
  /\ event' = [kind |-> "mount"]
  /\ UNCHANGED <<savingsRows, savings, totalSavings, savAdding, savAmount,
                 savDescription, nSavOps, modal, nFaults>>
  /\ UNCHANGED savingsFrame

\* the amount and the description fields
SavingsType(text, desc) ==
  /\ savMounted
  /\ <<text, desc>> # <<savAmount, savDescription>>
  /\ savAmount' = text
  /\ savDescription' = desc
  /\ event' = [kind |-> "type"]
  /\ UNCHANGED <<savingsRows, savings, totalSavings, savLoading, savAdding,
                 savCalls, savMounted, nSavOps, modal, nFaults>>
  /\ UNCHANGED savingsFrame

\* the add button, disabled while adding; handleAddSavings up to its await
AddSavingsStart(month, year) ==
  /\ savMounted
  /\ ~savAdding
  /\ nSavOps < MaxSavOps
  /\ nSavOps' = nSavOps + 1
  /\ LET amountNum == parseFloat(savAmount)
     IN  IF month = "" \/ savAmount = <<>>
           THEN /\ modal' = "error"
                /\ UNCHANGED <<savAdding, savCalls>>
           ELSE IF isNaN(amountNum) \/ amountNum.value <= 0
             THEN /\ modal' = "error"
                  /\ UNCHANGED <<savAdding, savCalls>>
             ELSE /\ savAdding' = TRUE
                  /\ savCalls' = savCalls (+)
                       One([fn |-> "handleAddSavings", pc |-> "upsert",
                            entry |-> [month |-> month, year |-> year,
                                       amount |-> amountNum.value,
                                       description |-> OrNull(savDescription)]])
                  /\ UNCHANGED modal
  /\ event' = [kind |-> "add"]
  /\ UNCHANGED <<savingsRows, savings, totalSavings, savLoading, savAmount,
                 savDescription, savMounted, nFaults>>
  /\ UNCHANGED savingsFrame

\* the table takes the upsert, or refuses it
UpsertServe(c) ==
  /\ c.pc = "upsert"
  /\ \/ /\ savingsRows' = Upsert(savingsRows, c.entry)
        /\ savCalls' = (savCalls (-) One(c))
                         (+) One([fn |-> c.fn, pc |-> "ok", entry |-> c.entry])
        /\ event' = [kind |-> "upsert.served", entry |-> c.entry, error |-> "none"]
        /\ UNCHANGED nFaults
     \/ /\ nFaults < MaxFaults
        /\ nFaults' = nFaults + 1
        /\ savCalls' = (savCalls (-) One(c))
                         (+) One([fn |-> c.fn, pc |-> "error", entry |-> c.entry])
        /\ event' = [kind |-> "upsert.served", entry |-> c.entry, error |-> "failed"]
        /\ UNCHANGED savingsRows
  /\ UNCHANGED <<savings, totalSavings, savLoading, savAdding, savAmount,
                 savDescription, savMounted, nSavOps, modal>>
  /\ UNCHANGED savingsFrame

\* handleAddSavings after the upsert
AddSavingsDone(c) ==
  /\ c.fn = "handleAddSavings"
  /\ c.pc \in {"ok", "error"}
  /\ IF c.pc = "error"
       THEN /\ modal' = "error"
            /\ savCalls' = savCalls (-) One(c)
            /\ UNCHANGED <<savAmount, savDescription, savLoading>>
       ELSE /\ modal' = "success"
            /\ savAmount' = <<>>
            /\ savDescription' = ""
            /\ savLoading' = TRUE
            /\ savCalls' = (savCalls (-) One(c)) (+) FetchSavingsCall
  /\ savAdding' = FALSE
  /\ event' = [kind |-> "handleAddSavings.done"]
  /\ UNCHANGED <<savingsRows, savings, totalSavings, savMounted, nSavOps,
                 nFaults>>
  /\ UNCHANGED savingsFrame

\* the table answers fetchSavings, and fetchSavings goes on
FetchSavingsDone(c) ==
  /\ c.fn = "fetchSavings"
  /\ \/ /\ savings' = SavingsOrdered(savingsRows)
        /\ totalSavings' = SumAmounts(SavingsOrdered(savingsRows))
        /\ UNCHANGED <<modal, nFaults>>
     \/ /\ nFaults < MaxFaults
        /\ nFaults' = nFaults + 1
        /\ modal' = "error"
        /\ UNCHANGED <<savings, totalSavings>>
  /\ savLoading' = FALSE
  /\ savCalls' = savCalls (-) One(c)
  /\ event' = [kind |-> "fetchSavings.done"]
  /\ UNCHANGED <<savingsRows, savAdding, savAmount, savDescription, savMounted,
                 nSavOps>>
  /\ UNCHANGED savingsFrame

NextSavings ==
  \/ SavingsMount
  \/ \E text \in InputTexts : \E desc \in InputDescriptions : SavingsType(text, desc)
  \/ \E month \in InputMonths : \E year \in InputYears : AddSavingsStart(month, year)
  \/ \E c \in BagToSet(savCalls) : UpsertServe(c)
  \/ \E c \in BagToSet(savCalls) : AddSavingsDone(c)
  \/ \E c \in BagToSet(savCalls) : FetchSavingsDone(c)

InitSavings ==
  /\ InitSched
  /\ \A i \in Ids : remote[i].enabled
  /\ InitAlarm
  /\ InitHome
  /\ balanceRows = <<>>
  /\ event = [kind |-> "none"]
  /\ savingsRows \in SeedSavings
  /\ InitSavingsScreen
  /\ expensesRows = <<>>
  /\ InitExpensesScreen
  /\ InitLater

SpecSavings == InitSavings /\ [][NextSavings]_vars

\* ------------------------------------------------------------ expenses screen
\* ExpensesScreen: handleAddExpense and fetchExpenses against the expenses
\* table.

MaxExpOps == 2        \* presses of the add button

\* what the user types into the name and the amount field
InputNames == {"", "tea"}

InputAmounts ==
  { <<>>, <<"1", "5", "0">>, <<"-", "5">>, <<"a", "b", "c">>, <<"0">>,
    <<"2", ".", "5", ".", "1">> }

\* the dates of the date field, in ascending order
ExpenseDates == <<"2025-01-15", "2025-02-01">>

DateRank(d) == CHOOSE k \in 1..Len(ExpenseDates) : ExpenseDates[k] = d

\* order('date', desc), order('created_at', desc)
ExpenseBefore(a, b) ==
  \/ DateRank(a.date) > DateRank(b.date)
  \/ a.date = b.date /\ a.created_at > b.created_at

\* select('*') in that order
ExpensesOrdered(rows) ==
  CHOOSE s \in [1..Len(rows) -> RangeOf(rows)] :
    \A i, j \in 1..Len(rows) : i < j => ExpenseBefore(s[i], s[j])

\* fetchExpenses() up to its await
FetchExpensesCall == One([fn |-> "fetchExpenses", pc |-> "select"])

\* the screen is mounted: the effect calls fetchExpenses
ExpensesMount ==
  /\ ~expMounted
  /\ expMounted' = TRUE
  /\ expLoading' = TRUE
  /\ expCalls' = expCalls (+) FetchExpensesCall
  /\ event' = [kind |-> "mount"]
  /\ UNCHANGED <<expensesRows, expenses, expAdding, expenseType, expName,
                 expAmount, selectedDate, nExpOps, modal, nFaults>>
  /\ UNCHANGED expensesFrame

\* the fields of the add form, one at a time
ExpenseType(name, text, type, date) ==
  /\ expMounted
  /\ Cardinality({ k \in 1..4 :
                     <<name, text, type, date>>[k]
                       # <<expName, expAmount, expenseType, selectedDate>>[k] }) = 1
  /\ expName' = name
  /\ expAmount' = text
  /\ expenseType' = type
  /\ selectedDate' = date
  /\ event' = [kind |-> "type"]
  /\ UNCHANGED <<expensesRows, expenses, expLoading, expAdding, expCalls,
                 expMounted, nExpOps, modal, nFaults>>
  /\ UNCHANGED expensesFrame

\* the add button, disabled while adding; handleAddExpense up to its await
AddExpenseStart ==
  /\ expMounted
  /\ ~expAdding
  /\ nExpOps < MaxExpOps
  /\ nExpOps' = nExpOps + 1
  /\ LET amountNum == parseFloat(expAmount)
     IN  IF expName = "" \/ expAmount = <<>>
           THEN /\ modal' = "error"
                /\ UNCHANGED <<expAdding, expCalls>>
           ELSE IF isNaN(amountNum) \/ amountNum.value <= 0
             THEN /\ modal' = "error"
                  /\ UNCHANGED <<expAdding, expCalls>>
             ELSE /\ expAdding' = TRUE
                  /\ expCalls' = expCalls (+)
                       One([fn |-> "handleAddExpense", pc |-> "insert",
                            row |-> [name |-> expName, amount |-> amountNum.value,
                                     type |-> expenseType, date |-> selectedDate]])
                  /\ UNCHANGED modal
  /\ event' = [kind |-> "handleAddExpense", name |-> expName, amount |-> expAmount]
  /\ UNCHANGED <<expensesRows, expenses, expLoading, expenseType, expName,
                 expAmount, selectedDate, expMounted, nFaults>>
  /\ UNCHANGED expensesFrame

\* the table takes the insert, or refuses it
ExpenseInsertServe(c) ==
  /\ c.pc = "insert"
  /\ \/ /\ expensesRows' =
             Append(expensesRows,
                    [id |-> Len(expensesRows) + 1, name |-> c.row.name,
                     amount |-> c.row.amount, type |-> c.row.type,
                     date |-> c.row.date, created_at |-> Len(expensesRows) + 1])
        /\ expCalls' = (expCalls (-) One(c)) (+) One([c EXCEPT !.pc = "ok"])
        /\ UNCHANGED nFaults
     \/ /\ nFaults < MaxFaults
        /\ nFaults' = nFaults + 1
        /\ expCalls' = (expCalls (-) One(c)) (+) One([c EXCEPT !.pc = "error"])
        /\ UNCHANGED expensesRows
  /\ event' = [kind |-> "served"]
  /\ UNCHANGED <<expenses, expLoading, expAdding, expenseType, expName,
                 expAmount, selectedDate, expMounted, nExpOps, modal>>
  /\ UNCHANGED expensesFrame

\* handleAddExpense after the insert
AddExpenseDone(c) ==
  /\ c.fn = "handleAddExpense"
  /\ c.pc \in {"ok", "error"}
  /\ IF c.pc = "error"
       THEN /\ modal' = "error"
            /\ expCalls' = expCalls (-) One(c)
            /\ UNCHANGED <<expName, expAmount, expLoading>>
       ELSE /\ modal' = "success"
            /\ expName' = ""
            /\ expAmount' = <<>>
            /\ expLoading' = TRUE
            /\ expCalls' = (expCalls (-) One(c)) (+) FetchExpensesCall
  /\ expAdding' = FALSE
  /\ event' = [kind |-> "handleAddExpense.done"]
  /\ UNCHANGED <<expensesRows, expenses, expenseType, selectedDate, expMounted,
                 nExpOps, nFaults>>
  /\ UNCHANGED expensesFrame

\* the table answers fetchExpenses, and fetchExpenses goes on
FetchExpensesDone(c) ==
  /\ c.fn = "fetchExpenses"
  /\ \/ /\ expenses' = ExpensesOrdered(expensesRows)
        /\ UNCHANGED <<modal, nFaults>>
     \/ /\ nFaults < MaxFaults
        /\ nFaults' = nFaults + 1
        /\ modal' = "error"
        /\ UNCHANGED expenses
  /\ expLoading' = FALSE
  /\ expCalls' = expCalls (-) One(c)
  /\ event' = [kind |-> "fetchExpenses.done"]
  /\ UNCHANGED <<expensesRows, expAdding, expenseType, expName, expAmount,
                 selectedDate, expMounted, nExpOps>>
  /\ UNCHANGED expensesFrame

NextExpenses ==
  \/ ExpensesMount
  \/ \E name \in InputNames : \E text \in InputAmounts :
       \E type \in {"daily", "monthly"} : \E date \in RangeOf(ExpenseDates) :
         ExpenseType(name, text, type, date)
  \/ AddExpenseStart
  \/ \E c \in BagToSet(expCalls) : ExpenseInsertServe(c)
  \/ \E c \in BagToSet(expCalls) : AddExpenseDone(c)
  \/ \E c \in BagToSet(expCalls) : FetchExpensesDone(c)

InitExpenses ==
  /\ InitSched
  /\ \A i \in Ids : remote[i].enabled
  /\ InitAlarm
  /\ InitHome
  /\ balanceRows = <<>>
  /\ event = [kind |-> "none"]
  /\ InitMore

SpecExpenses == InitExpenses /\ [][NextExpenses]_vars

\* ------------------------------------------------------ time conversions
\* convertTo12Hour and convertTo24Hour of PrayersScreen, applied in chains to
\* the times of a clock.

\* how many conversions a chain applies
MaxConversions == 2

AllDigits(s) == \A i \in 1..Len(s) : IsDigit(s[i])

\* String.prototype.padStart(2, '0')
padStart2(s) ==
  IF Len(s) >= 2 THEN s
  ELSE IF Len(s) = 1 THEN <<"0">> \o s
  ELSE <<"0", "0">>

\* the text of Number(s): of a number that is not negative, or of NaN
NumberText(s, n) == IF AllDigits(s) THEN DigitsOf(n) ELSE <<"N", "a", "N">>

\* minutes.toString() of a time without a colon: minutes is undefined
Thrown == <<"TypeError">>

\* const hour12 = hours === 0 ? 12 : hours > 12 ? hours - 12 : hours;
\* const isPM = hours >= 12;  (every comparison with NaN is false)
convertTo12Hour(time24) ==
  LET parts   == SplitColon(time24)
      hours   == IF AllDigits(parts[1]) THEN Number(parts[1]) ELSE 0
      minutes == IF AllDigits(parts[2]) THEN Number(parts[2]) ELSE 0
      hour12  == IF hours = 0 THEN 12
                 ELSE IF hours > 12 THEN hours - 12 ELSE hours
  IN  IF Len(parts) < 2 THEN [time |-> Thrown, isPM |-> FALSE]
      ELSE [time |-> NumberText(parts[1], hour12) \o <<":">>
                       \o padStart2(NumberText(parts[2], minutes)),
            isPM |-> AllDigits(parts[1]) /\ hours >= 12]

\* convertTo24Hour without the branch for 12 AM
convertTo24HourNoMidnight(time12, pm) ==
  LET parts   == SplitColon(time12)
      hours   == IF AllDigits(parts[1]) THEN Number(parts[1]) ELSE 0
      minutes == IF AllDigits(parts[2]) THEN Number(parts[2]) ELSE 0
      hour24  == IF pm /\ hours # 12 THEN hours + 12 ELSE hours
  IN  IF Len(parts) < 2 THEN Thrown
      ELSE padStart2(NumberText(parts[1], hour24)) \o <<":">>
             \o padStart2(NumberText(parts[2], minutes))

\* let hour24 = hours; if (isPM && hours !== 12) hour24 = hours + 12;
\* else if (!isPM && hours === 12) hour24 = 0;
convertTo24Hour(time12, pm) ==
  LET parts   == SplitColon(time12)
      hours   == IF AllDigits(parts[1]) THEN Number(parts[1]) ELSE 0
      minutes == IF AllDigits(parts[2]) THEN Number(parts[2]) ELSE 0
      hour24  == IF pm /\ hours # 12 THEN hours + 12
                 ELSE IF ~pm /\ hours = 12 THEN 0 ELSE hours
  IN  IF Len(parts) < 2 THEN Thrown
      ELSE padStart2(NumberText(parts[1], hour24)) \o <<":">>
             \o padStart2(NumberText(parts[2], minutes))

\* the times of a 24-hour clock, zero-padded HH:MM
ClockTimes24 ==
  { padStart2(DigitsOf(h)) \o <<":">> \o padStart2(DigitsOf(m)) :
      h \in 0..23, m \in 0..59 }

\* the times of a 12-hour clock as the time field takes them: the hour 1-12
\* without padding, the minute 00-59
ClockTimes12 ==
  { DigitsOf(h) \o <<":">> \o padStart2(DigitsOf(m)) : h \in 1..12, m \in 0..59 }

\* the inputs of a chain: a 24-hour time, or a 12-hour time with its flag
ConversionInputs ==
  { [kind |-> "24", time |-> t, isPM |-> FALSE] : t \in ClockTimes24 }
    \cup { [kind |-> "12", time |-> t, isPM |-> pm] :
             t \in ClockTimes12, pm \in BOOLEAN }

convFrame == <<schedVars, alarmVars, homeVars, savingsVars, expensesVars,
               editVars, authVars, pickVars, lastVars, event>>

\* convertTo12Hour(time24) applied to the value of the chain
ConvertTo12Hour ==
  /\ Len(convTrace) < MaxConversions
  /\ convVal.kind = "24"
  /\ LET r == convertTo12Hour(convVal.time)
     IN  convVal' = [kind |-> "12", time |-> r.time, isPM |-> r.isPM]
  /\ convTrace' = Append(convTrace, "convertTo12Hour")
  /\ UNCHANGED convArg
  /\ UNCHANGED convFrame

\* convertTo24Hour(time12, isPM) applied to the value of the chain
ConvertTo24Hour ==
  /\ Len(convTrace) < MaxConversions
  /\ convVal.kind = "12"
  /\ convVal' = [kind |-> "24", time |-> convertTo24Hour(convVal.time, convVal.isPM),
                 isPM |-> FALSE]
  /\ convTrace' = Append(convTrace, "convertTo24Hour")
  /\ UNCHANGED convArg
  /\ UNCHANGED convFrame

NextConvert ==
  \/ ConvertTo12Hour
  \/ ConvertTo24Hour

InitConvert ==
  /\ InitSched
  /\ \A i \in Ids : remote[i].enabled
  /\ InitAlarm
  /\ InitHome
  /\ balanceRows = <<>>
  /\ event = [kind |-> "none"]
  /\ savingsRows = <<>>
  /\ InitSavingsScreen
  /\ expensesRows = <<>>
  /\ InitExpensesScreen
  /\ convArg \in ConversionInputs
  /\ convVal = convArg
  /\ convTrace = <<>>
  /\ InitEdit
  /\ InitAuthIdle
  /\ InitPick
  /\ InitLast

SpecConvert == InitConvert /\ [][NextConvert]_vars

\* ------------------------------------------------------------ time editor
\* The time editor of a reminder card: handleEditTime, the time field and the
\* AM/PM buttons, handleCancelEdit, handleSaveTime and handleTimeChange.

\* presses of the save button
MaxEditOps == 2

\* what the time field can hold (maxLength 5)
InputTimeTexts ==
  { <<>>,
    <<"6", ":", "3", "0">>,
    <<"1", "2", ":", "0", "0">>,
    <<"1", "3", ":", "0", "0">>,
    <<"0", "6", ":", "3", "0">>,
    <<"0", ":", "3", "0">>,
    <<"6", ":", "6", "0">>,
    <<"6", ":", "3">>,
    <<"6", "3", "0">>,
    <<"6", ":", "3", "0", " ">> }

\* a time field that also takes the hours 0 and 13 to 19
timeRegexLoose(s) ==
  \E k \in {1, 2} :
    /\ Len(s) = k + 3
    /\ \A j \in 1..k : IsDigit(s[j])
    /\ k = 2 => s[1] = "1"
    /\ s[k + 1] = ":"
    /\ s[k + 2] \in {"0", "1", "2", "3", "4", "5"}
    /\ IsDigit(s[k + 3])

\* /^([1-9]|1[0-2]):([0-5][0-9])$/.test(s)
timeRegex(s) ==
  \E k \in {1, 2} :
    /\ Len(s) = k + 3
    /\ IF k = 1 THEN IsDigit(s[1]) /\ s[1] # "0"
                ELSE s[1] = "1" /\ s[2] \in {"0", "1", "2"}
    /\ s[k + 1] = ":"
    /\ s[k + 2] \in {"0", "1", "2", "3", "4", "5"}
    /\ IsDigit(s[k + 3])

\* the reducer updatePrayer with the payload {id, time}
updatePrayerTime(list, id, time) ==
  LET index == FindIndex(list, id)
  IN  IF index # -1 THEN [list EXCEPT ![index].time = time] ELSE list

editFrame == <<alarmVars, homeVars, savingsVars, expensesVars, convVars,
               authVars, pickVars, lastVars>>

\* calls in flight, those of the time editor included
EditorBusy == InFlight + BagCardinality(timeEdits)

\* handleEditTime(prayer.id, prayer.time): the Change Time button of card i
EditTime(i) ==
  /\ mounted /\ ~loading
  /\ EditorBusy = 0
  /\ editingTimeId # prayers[i].id
  /\ updating # prayers[i].id
  /\ editingTimeId' = prayers[i].id
  /\ timeInput' = convertTo12Hour(prayers[i].time).time
  /\ isPM' = convertTo12Hour(prayers[i].time).isPM
  /\ event' = [kind |-> "handleEditTime"]
  /\ UNCHANGED <<schedVars, timeEdits, nEditOps>>
  /\ UNCHANGED editFrame

\* onChangeText={setTimeInput}
TypeTime(text) ==
  /\ mounted /\ ~loading
  /\ EditorBusy = 0
  /\ editingTimeId # Null
  /\ text # timeInput
  /\ timeInput' = text
  /\ event' = [kind |-> "setTimeInput"]
  /\ UNCHANGED <<schedVars, editingTimeId, isPM, timeEdits, nEditOps>>
  /\ UNCHANGED editFrame

\* the AM and the PM button
SetIsPM(pm) ==
  /\ mounted /\ ~loading
  /\ EditorBusy = 0
  /\ editingTimeId # Null
  /\ pm # isPM
  /\ isPM' = pm
  /\ event' = [kind |-> "setIsPM"]
  /\ UNCHANGED <<schedVars, editingTimeId, timeInput, timeEdits, nEditOps>>
  /\ UNCHANGED editFrame

\* handleCancelEdit
CancelEdit ==
  /\ mounted /\ ~loading
  /\ EditorBusy = 0
  /\ editingTimeId # Null
  /\ editingTimeId' = Null
  /\ timeInput' = <<>>
  /\ isPM' = FALSE
  /\ event' = [kind |-> "handleCancelEdit"]
  /\ UNCHANGED <<schedVars, timeEdits, nEditOps>>
  /\ UNCHANGED editFrame

\* handleSaveTime(prayer.id): the two checks with their alerts, then
\* handleTimeChange(id, time24) up to its await: setUpdating(id),
\* updatePrayer({id, time}), the update request; the changed list re-runs the
\* reschedule effect
SaveTime ==
  /\ mounted /\ ~loading
  /\ editingTimeId # Null
  /\ FindIndex(prayers, editingTimeId) # -1
  /\ updating # editingTimeId
  /\ nEditOps < MaxEditOps
  /\ EditorBusy < MaxBusy
  /\ nEditOps' = nEditOps + 1
  /\ IF timeInput = <<>>
       THEN /\ event' = [kind |-> "handleSaveTime", alert |-> "Error"]
            /\ UNCHANGED <<updating, prayers, cancels, timeEdits>>
       ELSE IF ~timeRegex(timeInput)
         THEN /\ event' = [kind |-> "handleSaveTime", alert |-> "Invalid Format"]
              /\ UNCHANGED <<updating, prayers, cancels, timeEdits>>
         ELSE LET time24 == convertTo24Hour(timeInput, isPM)
              IN  /\ event' = [kind |-> "handleSaveTime", alert |-> "none"]
                  /\ updating' = editingTimeId
                  /\ prayers' = updatePrayerTime(prayers, editingTimeId, time24)
                  /\ cancels' = cancels (+) RescheduleEffect(prayers', globalRingtone)
                  /\ timeEdits' = timeEdits (+) One([id |-> editingTimeId,
                                                     time |-> time24,
                                                     pc |-> "request",
                                                     data |-> <<>>])
  /\ UNCHANGED <<remote, loading, globalRingtone, mounted, scheduled, schedReqs,
                 fetches, ringFetches, toggles, nOps, nFaults, before, again>>
  /\ UNCHANGED <<editingTimeId, timeInput, isPM>>
  /\ UNCHANGED editFrame

\* update({time: newTime}).eq('id', id) is answered by the remote store
TimeServe(t) ==
  /\ t.pc = "request"
  /\ \/ /\ remote' = [remote EXCEPT ![t.id].time = t.time]
        /\ timeEdits' = (timeEdits (-) One(t)) (+) One([t EXCEPT !.pc = "ok"])
        /\ UNCHANGED nFaults
     \/ /\ nFaults < MaxFaults
        /\ nFaults' = nFaults + 1
        /\ timeEdits' = (timeEdits (-) One(t)) (+) One([t EXCEPT !.pc = "error"])
        /\ UNCHANGED remote
  /\ UNCHANGED <<prayers, loading, updating, globalRingtone, mounted, scheduled,
                 cancels, schedReqs, fetches, ringFetches, toggles, nOps, before, again>>
  /\ UNCHANGED <<editingTimeId, timeInput, isPM, nEditOps, event>>
  /\ UNCHANGED editFrame

\* handleTimeChange without its finally block
TimeOkNoFinally(t) ==
  /\ t.pc = "ok"
  /\ timeEdits' = timeEdits (-) One(t)
  /\ editingTimeId' = Null
  /\ timeInput' = <<>>
  /\ isPM' = FALSE
  /\ UNCHANGED <<remote, prayers, loading, updating, globalRingtone, mounted,
                 scheduled, cancels, schedReqs, fetches, ringFetches, toggles,
                 nOps, nFaults, before, again>>
  /\ UNCHANGED <<nEditOps, event>>
  /\ UNCHANGED editFrame

\* handleTimeChange after its await, the write having succeeded: the editor
\* is closed, then the finally block
TimeOk(t) ==
  /\ t.pc = "ok"
  /\ timeEdits' = timeEdits (-) One(t)
  /\ editingTimeId' = Null
  /\ timeInput' = <<>>
  /\ isPM' = FALSE
  /\ updating' = Null
  /\ UNCHANGED <<remote, prayers, loading, globalRingtone, mounted, scheduled,
                 cancels, schedReqs, fetches, ringFetches, toggles, nOps, nFaults,
                 before, again>>
  /\ UNCHANGED <<nEditOps, event>>
  /\ UNCHANGED editFrame

\* handleTimeChange after its await, the write having failed: the alert and
\* await fetchPrayers() up to its select
TimeError(t) ==
  /\ t.pc = "error"
  /\ timeEdits' = (timeEdits (-) One(t)) (+) One([t EXCEPT !.pc = "fetch"])
  /\ loading' = TRUE
  /\ event' = [kind |-> "handleTimeChange", alert |-> "Error"]
  /\ UNCHANGED <<remote, prayers, updating, globalRingtone, mounted, scheduled,
                 cancels, schedReqs, fetches, ringFetches, toggles, nOps, nFaults,
                 before, again>>
  /\ UNCHANGED <<editingTimeId, timeInput, isPM, nEditOps>>
  /\ UNCHANGED editFrame

\* the select of the awaited fetchPrayers is answered by the remote store
TimeFetchServe(t) ==
  /\ t.pc = "fetch"
  /\ \/ \E data \in SelectOrdered(remote) :
          /\ timeEdits' = (timeEdits (-) One(t))
                            (+) One([t EXCEPT !.pc = "data", !.data = data])
          /\ UNCHANGED nFaults
     \/ /\ nFaults < MaxFaults
        /\ nFaults' = nFaults + 1
        /\ timeEdits' = (timeEdits (-) One(t)) (+) One([t EXCEPT !.pc = "nodata"])
  /\ UNCHANGED <<remote, prayers, loading, updating, globalRingtone, mounted,
                 scheduled, cancels, schedReqs, fetches, ringFetches, toggles,
                 nOps, before, again>>
  /\ UNCHANGED <<editingTimeId, timeInput, isPM, nEditOps, event>>
  /\ UNCHANGED editFrame

\* the awaited fetchPrayers returns (setPrayers(data) or its alert, then
\* setLoading(false)) and handleTimeChange goes on: the editor is closed, then
\* the finally block
TimeFetchDone(t) ==
  /\ t.pc \in {"data", "nodata"}
  /\ timeEdits' = timeEdits (-) One(t)
  /\ loading' = FALSE
  /\ IF t.pc = "data"
       THEN /\ prayers' = t.data
            /\ cancels' = cancels (+) RescheduleEffect(t.data, globalRingtone)
       ELSE UNCHANGED <<prayers, cancels>>
  /\ editingTimeId' = Null
  /\ timeInput' = <<>>
  /\ isPM' = FALSE
  /\ updating' = Null
  /\ UNCHANGED <<remote, globalRingtone, mounted, scheduled, schedReqs, fetches,
                 ringFetches, toggles, nOps, nFaults, before, again>>
  /\ UNCHANGED <<nEditOps, event>>
  /\ UNCHANGED editFrame

NextEdit ==
  \/ Mount
  \/ \E f \in BagToSet(fetches) : FetchServe(f)
  \/ \E f \in BagToSet(fetches) : FetchDone(f)
  \/ \E f \in BagToSet(ringFetches) : RingFetchServe(f)
  \/ \E f \in BagToSet(ringFetches) : RingFetchDone(f)
  \/ \E c \in BagToSet(cancels) : CancelDone(c)
  \/ \E n \in BagToSet(schedReqs) : ScheduleApply(n)
  \/ \E i \in 1..Len(prayers) : EditTime(i)
  \/ \E text \in InputTimeTexts : TypeTime(text)
  \/ \E pm \in BOOLEAN : SetIsPM(pm)
  \/ CancelEdit
  \/ SaveTime
  \/ \E t \in BagToSet(timeEdits) : TimeServe(t)
  \/ \E t \in BagToSet(timeEdits) : TimeOk(t)
  \/ \E t \in BagToSet(timeEdits) : TimeError(t)
  \/ \E t \in BagToSet(timeEdits) : TimeFetchServe(t)
  \/ \E t \in BagToSet(timeEdits) : TimeFetchDone(t)

InitEditor ==
  /\ InitSched
  /\ \A i \in Ids : remote[i].enabled <=> i = PrayerIds[1]
  /\ InitAlarm
  /\ InitHome
  /\ balanceRows = <<>>
  /\ event = [kind |-> "none"]
  /\ InitMore

SpecEdit == InitEditor /\ [][NextEdit]_vars

\* ---------------------------------------------------------------- auth gate
\* AuthProvider (checkAuthStatus, login, loginWithFingerprint, logout), the
\* handlers of LoginScreen and the navigation guard of RootLayoutNav.

\* calls and navigations started from outside
MaxAuthOps == 2

\* failures of the remote store and of AsyncStorage
MaxAuthFaults == 1

\* restarts of the app
MaxRestarts == 1

\* const username = 'ejaz'; const password = '123';
FixedUsername == "ejaz"

FixedPassword == "123"

InputUsernames == {"", "ejaz", "Ejaz"}

InputPasswords == {"", "123", "124"}

\* the users table: empty, with the fixed pair, with the fixed pair twice
UsersTables ==
  { <<>>,
    <<[username |-> "ejaz", password |-> "123"]>>,
    <<[username |-> "ejaz", password |-> "123"],
      [username |-> "ejaz", password |-> "123"]>> }

Devices ==
  { [hardware |-> FALSE, enrolled |-> FALSE],
    [hardware |-> TRUE, enrolled |-> FALSE],
    [hardware |-> TRUE, enrolled |-> TRUE] }

Routes == {"(tabs)", "login", "modal"}

\* a lookup that compares the username only
MatchingByUsername(u, p) ==
  { k \in 1..Len(usersRows) : usersRows[k].username = u }

\* select('*').eq('username', u).eq('password', p)
Matching(u, p) ==
  { k \in 1..Len(usersRows) :
      usersRows[k].username = u /\ usersRows[k].password = p }

\* .single(): the row when exactly one row matches, an error otherwise
SingleFound(u, p) == Cardinality(Matching(u, p)) = 1

\* a prompt whose result always counts as a success
SucceededAlways(result) == TRUE

\* if (result.success)
Succeeded(result) == result = "success"

\* the calls of the given operations that are in flight
AuthCallsOf(ops) ==
  LET S == { c \in BagToSet(authCalls) : c.op \in ops }
  IN  BagCardinality([c \in S |-> authCalls[c]])

\* a guard that sends every unauthenticated user to the login route
GuardAnyRoute(auth, busy, seg) ==
  IF busy THEN <<>>
  ELSE IF ~auth /\ seg # "login" THEN <<"login">>
  ELSE IF auth /\ seg = "login" THEN <<"(tabs)">>
  ELSE <<>>

\* the body of the guard effect of RootLayoutNav: the router.replace calls it
\* makes
Guard(auth, busy, seg) ==
  IF busy THEN <<>>
  ELSE IF ~auth /\ seg = "(tabs)" THEN <<"login">>
  ELSE IF auth /\ seg = "login" THEN <<"(tabs)">>
  ELSE <<>>

\* router.replace(route) for each of the routes, with who called it
Replace(routes, who) ==
  [k \in 1..Len(routes) |-> [route |-> routes[k], by |-> who]]

\* the guard effect after a render: it runs when one of its dependencies
\* [isAuthenticated, isLoading, segments] has changed
GuardEffect(auth, busy, seg) ==
  IF <<auth, busy, seg>> # <<isAuthenticated, isLoading, segments>>
    THEN Replace(Guard(auth, busy, seg), "guard")
    ELSE <<>>

\* a call of login or loginWithFingerprint through its handler of LoginScreen
ViaHandler(c) == c.via = "handler"

authFrame == <<schedVars, alarmVars, homeVars, savingsVars, expensesVars,
               convVars, editVars, pickVars, lastVars>>

\* login or loginWithFingerprint returns false: the handler, when the call
\* came through one, shows its alert and runs setLoading(false)
ReturnFalse(c, step) ==
  /\ authCalls' = authCalls (-) One(c)
  /\ event' = [kind |-> c.op, result |-> FALSE, step |-> step,
               username |-> c.username, password |-> c.password,
               prompt |-> c.prompt]
  /\ loginLoading' = IF ViaHandler(c) THEN FALSE ELSE loginLoading
  /\ UNCHANGED <<isAuthenticated, isLoading, segments, navs, username,
                 password, fingerprintAvailable, nAuthOps, restarts>>

\* checkAuthStatus after its await: setIsAuthenticated(true) when the flag
\* is stored, then setIsLoading(false)
CheckAuthDone(c) ==
  /\ c.op = "checkAuthStatus"
  /\ authCalls' = authCalls (-) One(c)
  /\ \/ /\ isAuthenticated' = (isAuthenticated \/ storage.isAuthenticated = "true")
        /\ UNCHANGED nAuthFaults
     \/ /\ nAuthFaults < MaxAuthFaults
        /\ nAuthFaults' = nAuthFaults + 1
        /\ UNCHANGED isAuthenticated
  /\ isLoading' = FALSE
  /\ navs' = navs \o GuardEffect(isAuthenticated', FALSE, segments)
  /\ event' = [kind |-> "checkAuthStatus"]
  /\ UNCHANGED <<usersRows, biometrics, storage, segments, username, password,
                 loginLoading, fingerprintAvailable, nAuthOps, restarts>>
  /\ UNCHANGED authFrame

\* onChangeText={setUsername} and onChangeText={setPassword}
TypeCredentials(u, p) ==
  /\ segments = "login"
  /\ ~loginLoading
  /\ <<u, p>> # <<username, password>>
  /\ username' = u
  /\ password' = p
  /\ event' = [kind |-> "setUsername"]
  /\ UNCHANGED <<usersRows, biometrics, storage, isAuthenticated, isLoading,
                 segments, navs, loginLoading, fingerprintAvailable, authCalls,
                 nAuthOps, nAuthFaults, restarts>>
  /\ UNCHANGED authFrame

\* handleLogin up to the await of login, and login up to its await
LoginStart ==
  /\ segments = "login"
  /\ ~loginLoading
  /\ AuthCallsOf({"logout"}) = 0
  /\ nAuthOps < MaxAuthOps
  /\ nAuthOps' = nAuthOps + 1
  /\ IF username = "" \/ password = ""
       THEN /\ event' = [kind |-> "handleLogin", alert |-> "Error"]
            /\ UNCHANGED <<loginLoading, authCalls>>
       ELSE /\ event' = [kind |-> "handleLogin", alert |-> "none"]
            /\ loginLoading' = TRUE
            /\ authCalls' = authCalls (+) One([op |-> "login", pc |-> "lookup",
                                               via |-> "handler",
                                               username |-> username,
                                               password |-> password,
                                               prompt |-> "none"])
  /\ UNCHANGED <<usersRows, biometrics, storage, isAuthenticated, isLoading,
                 segments, navs, username, password, fingerprintAvailable,
                 nAuthFaults, restarts>>
  /\ UNCHANGED authFrame

\* loginWithFingerprint is called, by handleFingerprintLogin (the button is
\* there when fingerprintAvailable) or by another consumer of useAuth
FingerprintStart(via) ==
  /\ via = "handler" => segments = "login" /\ ~loginLoading /\ fingerprintAvailable
  /\ AuthCallsOf({"logout"}) = 0
  /\ nAuthOps < MaxAuthOps
  /\ nAuthOps' = nAuthOps + 1
  /\ loginLoading' = IF via = "handler" THEN TRUE ELSE loginLoading
  /\ authCalls' = authCalls (+) One([op |-> "loginWithFingerprint",
                                     pc |-> "device", via |-> via,
                                     username |-> FixedUsername,
                                     password |-> FixedPassword,
                                     prompt |-> "none"])
  /\ event' = [kind |-> "handleFingerprintLogin"]
  /\ UNCHANGED <<usersRows, biometrics, storage, isAuthenticated, isLoading,
                 segments, navs, username, password, fingerprintAvailable,
                 nAuthFaults, restarts>>
  /\ UNCHANGED authFrame

\* hasHardwareAsync and isEnrolledAsync have answered
FingerprintDevice(c) ==
  /\ c.pc = "device"
  /\ IF ~biometrics.hardware THEN ReturnFalse(c, "hardware")
     ELSE IF ~biometrics.enrolled THEN ReturnFalse(c, "enrolled")
     ELSE /\ authCalls' = (authCalls (-) One(c)) (+) One([c EXCEPT !.pc = "prompt"])
          /\ event' = [kind |-> "isEnrolledAsync"]
          /\ UNCHANGED <<isAuthenticated, isLoading, segments, navs, username,
                         password, loginLoading, fingerprintAvailable, nAuthOps,
                         restarts>>
  /\ UNCHANGED <<usersRows, biometrics, storage, nAuthFaults>>
  /\ UNCHANGED authFrame

\* authenticateAsync has answered with its result, the prompt having
\* succeeded or been cancelled
FingerprintPrompt(c) ==
  /\ c.pc = "prompt"
  /\ \E result \in {"success", "cancel"} :
       LET d == [c EXCEPT !.prompt = result]
       IN  IF Succeeded(result)
             THEN /\ authCalls' = (authCalls (-) One(c))
                                    (+) One([d EXCEPT !.pc = "lookup"])
                  /\ event' = [kind |-> "authenticateAsync"]
                  /\ UNCHANGED <<isAuthenticated, isLoading, segments, navs,
                                 username, password, loginLoading,
                                 fingerprintAvailable, nAuthOps, restarts>>
             ELSE /\ authCalls' = authCalls (-) One(c)
                  /\ event' = [kind |-> c.op, result |-> FALSE, step |-> "prompt",
                               username |-> c.username, password |-> c.password,
                               prompt |-> result]
                  /\ loginLoading' = IF ViaHandler(c) THEN FALSE ELSE loginLoading
                  /\ UNCHANGED <<isAuthenticated, isLoading, segments, navs,
                                 username, password, fingerprintAvailable,
                                 nAuthOps, restarts>>
  /\ UNCHANGED <<usersRows, biometrics, storage, nAuthFaults>>
  /\ UNCHANGED authFrame

\* the select on users has answered: with an error or without a row the
\* call returns false, with the row it goes on to
\* AsyncStorage.setItem('isAuthenticated', 'true')
LookupDone(c) ==
  /\ c.pc = "lookup"
  /\ \/ /\ SingleFound(c.username, c.password)
        /\ authCalls' = (authCalls (-) One(c)) (+) One([c EXCEPT !.pc = "setFlag"])
        /\ event' = [kind |-> "select", found |-> TRUE]
        /\ UNCHANGED <<isAuthenticated, isLoading, segments, navs, username,
                       password, loginLoading, fingerprintAvailable, nAuthOps,
                       restarts, nAuthFaults>>
     \/ /\ ~SingleFound(c.username, c.password)
        /\ ReturnFalse(c, "lookup")
        /\ UNCHANGED nAuthFaults
     \/ /\ nAuthFaults < MaxAuthFaults
        /\ nAuthFaults' = nAuthFaults + 1
        /\ ReturnFalse(c, "lookup")
  /\ UNCHANGED <<usersRows, biometrics, storage>>
  /\ UNCHANGED authFrame

\* AsyncStorage.setItem('isAuthenticated', 'true') has answered
SetFlagDone(c) ==
  /\ c.pc = "setFlag"
  /\ \/ /\ storage' = [storage EXCEPT !.isAuthenticated = "true"]
        /\ authCalls' = (authCalls (-) One(c)) (+) One([c EXCEPT !.pc = "setName"])
        /\ event' = [kind |-> "setItem"]
        /\ UNCHANGED <<isAuthenticated, isLoading, segments, navs, username,
                       password, loginLoading, fingerprintAvailable, nAuthOps,
                       restarts, nAuthFaults>>
     \/ /\ nAuthFaults < MaxAuthFaults
        /\ nAuthFaults' = nAuthFaults + 1
        /\ ReturnFalse(c, "storage")
        /\ UNCHANGED storage
  /\ UNCHANGED <<usersRows, biometrics>>
  /\ UNCHANGED authFrame

\* AsyncStorage.setItem('username', username) has answered: then
\* setIsAuthenticated(true) and return true; the handler, when the call came
\* through one, runs router.replace('/(tabs)') and setLoading(false)
SetNameDone(c) ==
  /\ c.pc = "setName"
  /\ \/ /\ storage' = [storage EXCEPT !.username = c.username]
        /\ authCalls' = authCalls (-) One(c)
        /\ isAuthenticated' = TRUE
        /\ navs' = navs \o (IF ViaHandler(c) THEN Replace(<<"(tabs)">>, "handler")
                                          ELSE <<>>)
                        \o GuardEffect(TRUE, isLoading, segments)
        /\ loginLoading' = IF ViaHandler(c) THEN FALSE ELSE loginLoading
        /\ event' = [kind |-> c.op, result |-> TRUE, step |-> "done",
                     username |-> c.username, password |-> c.password,
                     prompt |-> c.prompt]
        /\ UNCHANGED <<isLoading, segments, username, password,
                       fingerprintAvailable, nAuthOps, restarts, nAuthFaults>>
     \/ /\ nAuthFaults < MaxAuthFaults
        /\ nAuthFaults' = nAuthFaults + 1
        /\ ReturnFalse(c, "storage")
        /\ UNCHANGED storage
  /\ UNCHANGED <<usersRows, biometrics>>
  /\ UNCHANGED authFrame

\* logout is called by a consumer of useAuth.  No screen of the repository
\* calls it; the consumer is taken to call it when no login is in flight, as
\* no login is started while a logout is.
LogoutStart ==
  /\ ~isLoading
  /\ AuthCallsOf({"login", "loginWithFingerprint"}) = 0
  /\ nAuthOps < MaxAuthOps
  /\ nAuthOps' = nAuthOps + 1
  /\ authCalls' = authCalls (+) One([op |-> "logout", pc |-> "removeFlag",
                                     via |-> "context", username |-> "",
                                     password |-> "", prompt |-> "none"])
  /\ event' = [kind |-> "logout called"]
  /\ UNCHANGED <<usersRows, biometrics, storage, isAuthenticated, isLoading,
                 segments, navs, username, password, loginLoading,
                 fingerprintAvailable, nAuthFaults, restarts>>
  /\ UNCHANGED authFrame

\* AsyncStorage.removeItem('isAuthenticated') has answered; when it fails the
\* catch block logs and logout returns
LogoutFlagDone(c) ==
  /\ c.pc = "removeFlag"
  /\ \/ /\ storage' = [storage EXCEPT !.isAuthenticated = Null]
        /\ authCalls' = (authCalls (-) One(c)) (+) One([c EXCEPT !.pc = "removeName"])
        /\ event' = [kind |-> "removeItem"]
        /\ UNCHANGED nAuthFaults
     \/ /\ nAuthFaults < MaxAuthFaults
        /\ nAuthFaults' = nAuthFaults + 1
        /\ authCalls' = authCalls (-) One(c)
        /\ event' = [kind |-> "logout", step |-> "storage"]
        /\ UNCHANGED storage
  /\ UNCHANGED <<usersRows, biometrics, isAuthenticated, isLoading, segments,
                 navs, username, password, loginLoading, fingerprintAvailable,
                 nAuthOps, restarts>>
  /\ UNCHANGED authFrame

\* AsyncStorage.removeItem('username') has answered: then
\* setIsAuthenticated(false) and logout returns
LogoutNameDone(c) ==
  /\ c.pc = "removeName"
  /\ authCalls' = authCalls (-) One(c)
  /\ \/ /\ storage' = [storage EXCEPT !.username = Null]
        /\ isAuthenticated' = FALSE
        /\ navs' = navs \o GuardEffect(FALSE, isLoading, segments)
        /\ event' = [kind |-> "logout", step |-> "done"]
        /\ UNCHANGED nAuthFaults
     \/ /\ nAuthFaults < MaxAuthFaults
        /\ nAuthFaults' = nAuthFaults + 1
        /\ event' = [kind |-> "logout", step |-> "storage"]
        /\ UNCHANGED <<storage, isAuthenticated, navs>>
  /\ UNCHANGED <<usersRows, biometrics, isLoading, segments, username, password,
                 loginLoading, fingerprintAvailable, nAuthOps, restarts>>
  /\ UNCHANGED authFrame

\* the router applies the oldest router.replace; a LoginScreen that comes up
\* starts from its useState values and checkFingerprintAvailability
Navigate ==
  /\ navs # <<>>
  /\ segments' = Head(navs).route
  /\ navs' = Tail(navs) \o GuardEffect(isAuthenticated, isLoading, Head(navs).route)
  /\ IF Head(navs).route = "login" /\ segments # "login"
       THEN /\ username' = ""
            /\ password' = ""
            /\ loginLoading' = FALSE
            /\ fingerprintAvailable' = (biometrics.hardware /\ biometrics.enrolled)
       ELSE UNCHANGED <<username, password, loginLoading, fingerprintAvailable>>
  /\ event' = [kind |-> "navigate"]
  /\ UNCHANGED <<usersRows, biometrics, storage, isAuthenticated, isLoading,
                 authCalls, nAuthOps, nAuthFaults, restarts>>
  /\ UNCHANGED authFrame

\* a link opens a route of the stack
OpenRoute(route) ==
  /\ nAuthOps < MaxAuthOps
  /\ nAuthOps' = nAuthOps + 1
  /\ route # segments
  /\ navs = <<>>
  /\ navs' = Replace(<<route>>, "link")
  /\ event' = [kind |-> "link"]
  /\ UNCHANGED <<usersRows, biometrics, storage, isAuthenticated, isLoading,
                 segments, username, password, loginLoading,
                 fingerprintAvailable, authCalls, nAuthFaults, restarts>>
  /\ UNCHANGED authFrame

\* the app is closed and started again: AsyncStorage is what stays
Restart ==
  /\ restarts < MaxRestarts
  /\ ~isLoading
  /\ restarts' = restarts + 1
  /\ isAuthenticated' = FALSE
  /\ isLoading' = TRUE
  /\ segments' = "(tabs)"
  /\ navs' = <<>>
  /\ username' = ""
  /\ password' = ""
  /\ loginLoading' = FALSE
  /\ fingerprintAvailable' = FALSE
  /\ authCalls' = StartupCalls
  /\ UNCHANGED <<nAuthOps, nAuthFaults>>
  /\ event' = [kind |-> "restart"]
  /\ UNCHANGED <<usersRows, biometrics, storage>>
  /\ UNCHANGED authFrame

NextAuth ==
  \/ \E c \in BagToSet(authCalls) : CheckAuthDone(c)
  \/ \E u \in InputUsernames : \E p \in InputPasswords : TypeCredentials(u, p)
  \/ LoginStart
  \/ \E via \in {"handler", "context"} : FingerprintStart(via)
  \/ \E c \in BagToSet(authCalls) : FingerprintDevice(c)
  \/ \E c \in BagToSet(authCalls) : FingerprintPrompt(c)
  \/ \E c \in BagToSet(authCalls) : LookupDone(c)
  \/ \E c \in BagToSet(authCalls) : SetFlagDone(c)
  \/ \E c \in BagToSet(authCalls) : SetNameDone(c)
  \/ LogoutStart
  \/ \E c \in BagToSet(authCalls) : LogoutFlagDone(c)
  \/ \E c \in BagToSet(authCalls) : LogoutNameDone(c)
  \/ Navigate
  \/ \E route \in Routes : OpenRoute(route)
  \/ Restart

InitAuth ==
  /\ InitSched
  /\ \A i \in Ids : remote[i].enabled
  /\ InitAlarm
  /\ InitHome
  /\ balanceRows = <<>>
  /\ event = [kind |-> "none"]
  /\ savingsRows = <<>>
  /\ InitSavingsScreen
  /\ expensesRows = <<>>
  /\ InitExpensesScreen
  /\ InitConvIdle
  /\ InitEdit
  /\ usersRows \in UsersTables
  /\ biometrics \in Devices
  /\ storage = [isAuthenticated |-> Null, username |-> Null]
  /\ InitAuthApp
  /\ InitPick
  /\ InitLast

SpecAuth == InitAuth /\ [][NextAuth]_vars

\* the router applies every router.replace and AsyncStorage answers the
\* startup check
FairAuth ==
  /\ WF_vars(Navigate)
  /\ WF_vars(\E c \in BagToSet(authCalls) : CheckAuthDone(c))

SpecAuthLive == InitAuth /\ [][NextAuth]_vars /\ FairAuth

\* ---------------------------------------------------------- ringtone picker
\* handleSetGlobalRingtone of PrayersScreen: the document picker, the store's
\* globalRingtone and the update of every reminder row.

\* presses of the ringtone button
MaxPickOps == 1

\* what the document picker can return as result.assets[0].uri
PickedUris == {"file:picked.mp3"}

pickFrame == <<homeVars, savingsVars, expensesVars, convVars, editVars, authVars,
               lastVars>>

\* handleSetGlobalRingtone up to the await of the document picker; the call
\* keeps, as history, what the store and the rows held when it started
PickStart ==
  /\ mounted /\ ~loading
  /\ nPickOps < MaxPickOps
  /\ InFlight + BagCardinality(picks) < MaxBusy
  /\ nPickOps' = nPickOps + 1
  /\ picks' = picks (+) One([pc |-> "picker", uri |-> Null,
                             quiet |-> Quiescent,
                             before |-> globalRingtone,
                             rows |-> [i \in Ids |-> remote[i].ringtone_uri]])
  /\ UNCHANGED <<schedVars, alarmVars, event>>
  /\ UNCHANGED pickFrame

\* the picker is cancelled: if (result.canceled) return
PickCancelled(c) ==
  /\ c.pc = "picker"
  /\ picks' = picks (-) One(c)
  /\ UNCHANGED <<schedVars, alarmVars, nPickOps, event>>
  /\ UNCHANGED pickFrame

\* the picker returns a file: dispatch(setGlobalRingtone(uri)) and the update
\* request.  The changed globalRingtone re-runs the mount effect (its cleanup,
\* fetchPrayers, fetchGlobalRingtone) and the reschedule effect.
PickChosen(c, uri) ==
  /\ c.pc = "picker"
  /\ picks' = (picks (-) One(c)) (+) One([c EXCEPT !.pc = "update", !.uri = uri])
  /\ globalRingtone' = uri
  /\ IF uri # globalRingtone
       THEN /\ sounds' = CleanupSound(sounds, playingSound)
            /\ loading' = TRUE
            /\ fetches' = fetches (+) FetchCall
            /\ ringFetches' = ringFetches (+) RingFetchCall
            /\ cancels' = cancels (+) RescheduleEffect(prayers, uri)
       ELSE UNCHANGED <<sounds, loading, fetches, ringFetches, cancels>>
  /\ UNCHANGED <<remote, prayers, updating, mounted, scheduled, schedReqs,
                 toggles, nOps, nFaults, before, again>>
  /\ UNCHANGED <<playingSound, activeAlarmId, tray, recvs, resps, nAlarm>>
  /\ UNCHANGED <<nPickOps, event>>
  /\ UNCHANGED pickFrame

\* update({ringtone_uri: uri}) on every row is answered by the remote store
PickServe(c) ==
  /\ c.pc = "update"
  /\ \/ /\ remote' = [i \in Ids |-> [remote[i] EXCEPT !.ringtone_uri = c.uri]]
        /\ picks' = (picks (-) One(c)) (+) One([c EXCEPT !.pc = "ok"])
        /\ UNCHANGED nFaults
     \/ /\ nFaults < MaxFaults
        /\ nFaults' = nFaults + 1
        /\ picks' = (picks (-) One(c)) (+) One([c EXCEPT !.pc = "error"])
        /\ UNCHANGED remote
  /\ UNCHANGED <<prayers, loading, updating, globalRingtone, mounted, scheduled,
                 cancels, schedReqs, fetches, ringFetches, toggles, nOps, before, again>>
  /\ UNCHANGED <<alarmVars, nPickOps, event>>
  /\ UNCHANGED pickFrame

\* handleSetGlobalRingtone after its await, the write having succeeded: the
\* alert and fetchPrayers() unawaited
PickOk(c) ==
  /\ c.pc = "ok"
  /\ picks' = picks (-) One(c)
  /\ loading' = TRUE
  /\ fetches' = fetches (+) FetchCall
  /\ UNCHANGED <<remote, prayers, updating, globalRingtone, mounted, scheduled,
                 cancels, schedReqs, ringFetches, toggles, nOps, nFaults, before,
                 again>>
  /\ UNCHANGED <<alarmVars, nPickOps, event>>
  /\ UNCHANGED pickFrame

\* handleSetGlobalRingtone after its await, the write having failed: the
\* catch block shows its alert
PickError(c) ==
  /\ c.pc = "error"
  /\ picks' = picks (-) One(c)
  /\ UNCHANGED <<schedVars, alarmVars, nPickOps, event>>
  /\ UNCHANGED pickFrame

NextPick ==
  \/ Mount
  \/ \E f \in BagToSet(fetches) : FetchServe(f)
  \/ \E f \in BagToSet(fetches) : FetchDone(f)
  \/ \E f \in BagToSet(ringFetches) : RingFetchServe(f)
  \/ \E f \in BagToSet(ringFetches) : RingFetchDone(f)
  \/ \E c \in BagToSet(cancels) : CancelDone(c)
  \/ \E n \in BagToSet(schedReqs) : ScheduleApply(n)
  \/ PickStart
  \/ \E c \in BagToSet(picks) : PickCancelled(c)
  \/ \E c \in BagToSet(picks) : \E uri \in PickedUris : PickChosen(c, uri)
  \/ \E c \in BagToSet(picks) : PickServe(c)
  \/ \E c \in BagToSet(picks) : PickOk(c)
  \/ \E c \in BagToSet(picks) : PickError(c)

InitPicker ==
  /\ InitSched
  /\ \A i \in Ids : remote[i].enabled <=> i = PrayerIds[1]
  /\ InitAlarm
  /\ InitHome
  /\ balanceRows = <<>>
  /\ event = [kind |-> "none"]
  /\ InitMore

SpecPick == InitPicker /\ [][NextPick]_vars

\* ------------------------------------------------ dialogs and delete buttons
\* ModalProvider (showModal, hideModal, handleConfirm, handleCancel) and the
\* delete buttons of ExpensesScreen and WorkTrackerScreen.  The screens call
\* showModal of the one provider; `modal` of the earlier sections is left
\* alone here.

MaxDlgOps == 4        \* presses of delete buttons and of dialog buttons

\* useState selectedYear, selectedMonth of WorkTrackerScreen
SelectedYear == 2025

SelectedMonth == 0

Tables == {"expenses", "work_tracker"}

SeedExpenses ==
  << [id |-> 1, name |-> "tea", amount |-> 150, type |-> "daily",
      date |-> "2025-01-15", created_at |-> 1],
     [id |-> 2, name |-> "rent", amount |-> 900, type |-> "monthly",
      date |-> "2025-02-01", created_at |-> 2] >>

\* one entry of the selected month and one of the month after
SeedWork ==
  << [id |-> 1, year |-> 2025, month |-> 1, date |-> "2025-01-15",
      created_at |-> 1],
     [id |-> 2, year |-> 2025, month |-> 2, date |-> "2025-02-01",
      created_at |-> 2] >>

\* the configuration handleDeleteExpense(id) / handleDeleteWork(id) hands to
\* showModal; table and id stand for the closure onConfirm
DeleteConfig(table, id) ==
  [type |-> "confirm",
   title |-> IF table = "expenses" THEN "Delete Expense" ELSE "Delete Work Entry",
   table |-> table, id |-> id]

\* the configurations without onConfirm
ErrorConfig == [type |-> "error", title |-> "Error", table |-> Null, id |-> 0]

WarningConfig ==
  [type |-> "warning", title |-> "Permission Required", table |-> Null, id |-> 0]

\* delete().eq('id', id)
DeleteEq(rows, id) == SelectSeq(rows, LAMBDA r : r.id # id)

\* select('*').eq('year', selectedYear).eq('month', selectedMonth + 1) in
\* the order of fetchWorkEntries
WorkSelected(rows) ==
  ExpensesOrdered(SelectSeq(rows, LAMBDA r : r.year = SelectedYear
                                             /\ r.month = SelectedMonth + 1))

\* a dialog whose every button runs onConfirm
OnPressAnyButton(cfg, button) ==
  IF cfg.table # Null
    THEN One([table |-> cfg.table, id |-> cfg.id, pc |-> "request"])
    ELSE EmptyBag

\* the calls a button of the dialog starts: handleConfirm runs
\* config.onConfirm when there is one, handleCancel runs config.onCancel, and
\* no caller passes onCancel
OnPress(cfg, button) ==
  IF button = "confirm" /\ cfg.table # Null
    THEN One([table |-> cfg.table, id |-> cfg.id, pc |-> "request"])
    ELSE EmptyBag

\* the buttons the dialog shows
Buttons(cfg) == IF cfg.type = "confirm" THEN {"cancel", "confirm"} ELSE {"confirm"}

\* showModal(modalConfig)
ShowModal(cfg) ==
  /\ config' = cfg
  /\ visible' = TRUE
  /\ shows' = shows + 1

\* hideModal(): the animation starts; its callback is tagged with the number
\* of showModal calls made before it
HideModal == hides' = hides (+) One(shows)

\* what the dialogs and the delete buttons never write
dialogFrame == <<prayerScreenVars, homeOnlyVars, savingsVars, convVars, editVars,
                 authVars, pickVars, permVars, modal, expAdding, expenseType,
                 expName, expAmount, selectedDate, nExpOps>>

\* a screen is mounted: ExpensesScreen calls fetchExpenses,
\* WorkTrackerScreen requestPermissions and fetchWorkEntries
DialogMount(table) ==
  /\ IF table = "expenses"
       THEN /\ ~expMounted
            /\ expMounted' = TRUE
            /\ expLoading' = TRUE
            /\ expCalls' = expCalls (+) FetchExpensesCall
            /\ UNCHANGED <<workMounted, workLoading, workCalls>>
       ELSE /\ ~workMounted
            /\ workMounted' = TRUE
            /\ workLoading' = TRUE
            /\ workCalls' = workCalls
                 (+) One([fn |-> "requestPermissions", pc |-> "ask"])
                 (+) One([fn |-> "fetchWorkEntries", pc |-> "select"])
            /\ UNCHANGED <<expMounted, expLoading, expCalls>>
  /\ event' = [kind |-> "mount"]
  /\ UNCHANGED <<expensesRows, expenses, nFaults, visible, config, hides, shows,
                 deletes, workRows, workEntries, nDlgOps>>
  /\ UNCHANGED dialogFrame

\* requestPermissions of WorkTrackerScreen after its awaits
WorkPermissionsDone(c, granted) ==
  /\ c.fn = "requestPermissions"
  /\ workCalls' = workCalls (-) One(c)
  /\ IF granted
       THEN UNCHANGED <<visible, config, shows>>
       ELSE ShowModal(WarningConfig)
  /\ event' = [kind |-> "requestPermissions.done"]
  /\ UNCHANGED <<expensesRows, expenses, expLoading, expCalls, expMounted,
                 nFaults, hides, deletes, workRows, workEntries, workLoading,
                 workMounted, nDlgOps>>
  /\ UNCHANGED dialogFrame

\* fetchExpenses / fetchWorkEntries after the select: the list or the error
\* dialog, then setLoading(false)
ListFetchDone(table, c) ==
  /\ IF table = "expenses"
       THEN c \in BagToSet(expCalls) /\ c.fn = "fetchExpenses"
       ELSE c \in BagToSet(workCalls) /\ c.fn = "fetchWorkEntries"
  /\ \/ /\ IF table = "expenses"
             THEN expenses' = ExpensesOrdered(expensesRows)
                  /\ UNCHANGED workEntries
             ELSE workEntries' = WorkSelected(workRows)
                  /\ UNCHANGED expenses
        /\ UNCHANGED <<visible, config, shows, nFaults>>
     \/ /\ nFaults < MaxFaults
        /\ nFaults' = nFaults + 1
        /\ ShowModal(ErrorConfig)
        /\ UNCHANGED <<expenses, workEntries>>
  /\ IF table = "expenses"
       THEN /\ expLoading' = FALSE
            /\ expCalls' = expCalls (-) One(c)
            /\ UNCHANGED <<workLoading, workCalls>>
       ELSE /\ workLoading' = FALSE
            /\ workCalls' = workCalls (-) One(c)
            /\ UNCHANGED <<expLoading, expCalls>>
  /\ event' = [kind |-> "fetch.done", table |-> table]
  /\ UNCHANGED <<expensesRows, expMounted, hides, deletes, workRows,
                 workMounted, nDlgOps>>
  /\ UNCHANGED dialogFrame

\* the delete button of a listed row: handleDeleteExpense(expense.id) or
\* handleDeleteWork(entry.id).  The list is on the screen when the screen is
\* not loading, and the dialog, while visible, covers it.
DeletePress(table, id) ==
  /\ nDlgOps < MaxDlgOps
  /\ ~visible
  /\ IF table = "expenses"
       THEN expMounted /\ ~expLoading
            /\ \E k \in 1..Len(expenses) : expenses[k].id = id
       ELSE workMounted /\ ~workLoading
            /\ \E k \in 1..Len(workEntries) : workEntries[k].id = id
  /\ nDlgOps' = nDlgOps + 1
  /\ ShowModal(DeleteConfig(table, id))
  /\ event' = [kind |-> "deletePress", table |-> table, id |-> id]
  /\ UNCHANGED <<expensesRows, expenses, expLoading, expCalls, expMounted,
                 nFaults, hides, deletes, workRows, workEntries, workLoading,
                 workCalls, workMounted>>
  /\ UNCHANGED dialogFrame

\* a button of the dialog: handleConfirm or handleCancel, that is the
\* callback of the configuration up to its await, then hideModal()
ButtonPress(button) ==
  /\ nDlgOps < MaxDlgOps
  /\ visible
  /\ button \in Buttons(config)
  /\ nDlgOps' = nDlgOps + 1
  /\ deletes' = deletes (+) OnPress(config, button)
  /\ HideModal
  /\ event' = [kind |-> button, table |-> config.table, id |-> config.id]
  /\ UNCHANGED <<expensesRows, expenses, expLoading, expCalls, expMounted,
                 nFaults, visible, config, shows, workRows, workEntries,
                 workLoading, workCalls, workMounted>>
  /\ UNCHANGED dialogFrame

\* a tap on the overlay (onPress={hideModal}) or the back request
\* (onRequestClose={hideModal})
Dismiss(how) ==
  /\ nDlgOps < MaxDlgOps
  /\ visible
  /\ nDlgOps' = nDlgOps + 1
  /\ HideModal
  /\ event' = [kind |-> "dismiss", how |-> how]
  /\ UNCHANGED <<expensesRows, expenses, expLoading, expCalls, expMounted,
                 nFaults, visible, config, shows, deletes, workRows,
                 workEntries, workLoading, workCalls, workMounted>>
  /\ UNCHANGED dialogFrame

\* the callback of a hide animation: setVisible(false); setConfig(null)
HideDone(h) ==
  /\ hides' = hides (-) One(h)
  /\ visible' = FALSE
  /\ config' = NoConfig
  /\ event' = [kind |-> "hideDone", started |-> h]
  /\ UNCHANGED <<expensesRows, expenses, expLoading, expCalls, expMounted,
                 nFaults, shows, deletes, workRows, workEntries, workLoading,
                 workCalls, workMounted, nDlgOps>>
  /\ UNCHANGED dialogFrame

\* the table takes the delete, or refuses it
DeleteServe(c) ==
  /\ c.pc = "request"
  /\ \/ /\ IF c.table = "expenses"
             THEN expensesRows' = DeleteEq(expensesRows, c.id)
                  /\ UNCHANGED workRows
             ELSE workRows' = DeleteEq(workRows, c.id)
                  /\ UNCHANGED expensesRows
        /\ deletes' = (deletes (-) One(c)) (+) One([c EXCEPT !.pc = "ok"])
        /\ UNCHANGED nFaults
     \/ /\ nFaults < MaxFaults
        /\ nFaults' = nFaults + 1
        /\ deletes' = (deletes (-) One(c)) (+) One([c EXCEPT !.pc = "error"])
        /\ UNCHANGED <<expensesRows, workRows>>
  /\ event' = [kind |-> "deleteServe", table |-> c.table, id |-> c.id]
  /\ UNCHANGED <<expenses, expLoading, expCalls, expMounted, visible, config,
                 hides, shows, workEntries, workLoading, workCalls, workMounted,
                 nDlgOps>>
  /\ UNCHANGED dialogFrame

\* onConfirm after its await: the list is fetched again, or the error dialog
\* is shown
DeleteDone(c) ==
  /\ c.pc \in {"ok", "error"}
  /\ deletes' = deletes (-) One(c)
  /\ IF c.pc = "error"
       THEN /\ ShowModal(ErrorConfig)
            /\ UNCHANGED <<expLoading, expCalls, workLoading, workCalls>>
       ELSE /\ UNCHANGED <<visible, config, shows>>
            /\ IF c.table = "expenses"
                 THEN /\ expLoading' = TRUE
                      /\ expCalls' = expCalls (+) FetchExpensesCall
                      /\ UNCHANGED <<workLoading, workCalls>>
                 ELSE /\ workLoading' = TRUE
                      /\ workCalls' = workCalls
                           (+) One([fn |-> "fetchWorkEntries", pc |-> "select"])
                      /\ UNCHANGED <<expLoading, expCalls>>
  /\ event' = [kind |-> "onConfirm.done", table |-> c.table, id |-> c.id,
               failed |-> c.pc = "error"]
  /\ UNCHANGED <<expensesRows, expenses, expMounted, nFaults, hides, workRows,
                 workEntries, workMounted, nDlgOps>>
  /\ UNCHANGED dialogFrame

NextDialog ==
  \/ \E table \in Tables : DialogMount(table)
  \/ \E c \in BagToSet(workCalls) : \E granted \in BOOLEAN :
       WorkPermissionsDone(c, granted)
  \/ \E table \in Tables : \E c \in BagToSet(expCalls) \cup BagToSet(workCalls) :
       ListFetchDone(table, c)
  \/ \E table \in Tables : \E id \in 1..2 : DeletePress(table, id)
  \/ \E button \in {"cancel", "confirm"} : ButtonPress(button)
  \/ \E how \in {"overlay", "back"} : Dismiss(how)
  \/ \E h \in BagToSet(hides) : HideDone(h)
  \/ \E c \in BagToSet(deletes) : DeleteServe(c)
  \/ \E c \in BagToSet(deletes) : DeleteDone(c)

InitDialogs ==
  /\ InitSched
  /\ \A i \in Ids : remote[i].enabled
  /\ InitAlarm
  /\ InitHome
  /\ balanceRows = <<>>
  /\ event = [kind |-> "none"]
  /\ savingsRows = <<>>
  /\ InitSavingsScreen
  /\ expensesRows = SeedExpenses
  /\ InitExpensesScreen
  /\ InitConvIdle
  /\ InitEdit
  /\ InitAuthIdle
  /\ InitPick
  /\ visible = FALSE
  /\ config = NoConfig
  /\ hides = EmptyBag
  /\ shows = 0
  /\ deletes = EmptyBag
  /\ workRows = SeedWork
  /\ workEntries = <<>>
  /\ workLoading = TRUE
  /\ workCalls = EmptyBag
  /\ workMounted = FALSE
  /\ nDlgOps = 0
  /\ InitPerm

SpecDialog == InitDialogs /\ [][NextDialog]_vars

\* ------------------------------------------------- notification permission
\* requestPermissions and the mount effect that calls it.  The effect depends
\* on [playAlarmSound, stopAlarm, globalRingtone]; the two callbacks depend
\* on playingSound, so the effect runs again whenever playingSound or
\* globalRingtone changes.

MaxPermOps == 2       \* alarms started or stopped, and toggles

PermissionStatuses == {"granted", "denied", "undetermined"}

\* requestPermissions() up to its first await, on a platform that has one
RequestPermissionsCall ==
  IF PlatformOS # "web" THEN One([pc |-> "get"]) ELSE EmptyBag

permFrame == <<homeVars, savingsVars, expensesVars, convVars, editVars, authVars,
               pickVars, dialogVars>>

\* a run of the mount effect: requestPermissions(); fetchPrayers();
\* fetchGlobalRingtone()
MountEffect ==
  /\ permCalls' = permCalls (+) RequestPermissionsCall
  /\ loading' = TRUE
  /\ fetches' = fetches (+) FetchCall
  /\ ringFetches' = ringFetches (+) RingFetchCall

\* the screen is mounted: the mount effect and the reschedule effect run
PermMount ==
  /\ ~mounted
  /\ mounted' = TRUE
  /\ MountEffect
  /\ cancels' = cancels (+) RescheduleEffect(prayers, globalRingtone)
  /\ event' = [kind |-> "mount"]
  /\ UNCHANGED <<remote, prayers, updating, globalRingtone, scheduled,
                 schedReqs, toggles, nOps, nFaults, before, again>>
  /\ UNCHANGED <<alarmVars, permission, prompts, permAlerts, nPermOps>>
  /\ UNCHANGED permFrame

\* getPermissionsAsync resolves: done when granted, else
\* requestPermissionsAsync is called
PermGet(c) ==
  /\ c.pc = "get"
  /\ IF permission = "granted"
       THEN /\ permCalls' = permCalls (-) One(c)
            /\ UNCHANGED prompts
       ELSE /\ permCalls' = (permCalls (-) One(c)) (+) One([pc |-> "request"])
            /\ prompts' = prompts + 1
  /\ event' = [kind |-> "getPermissions", status |-> permission]
  /\ UNCHANGED <<schedVars, alarmVars, permission, permAlerts, nPermOps>>
  /\ UNCHANGED permFrame

\* requestPermissionsAsync resolves with the status the user or the OS
\* settles on; the alert when that is not 'granted'
PermAnswer(c, status) ==
  /\ c.pc = "request"
  /\ permCalls' = permCalls (-) One(c)
  /\ permission' = status
  /\ permAlerts' = IF status # "granted" THEN permAlerts + 1 ELSE permAlerts
  /\ event' = [kind |-> "requestPermissions", status |-> status]
  /\ UNCHANGED <<schedVars, alarmVars, prompts, nPermOps>>
  /\ UNCHANGED permFrame

\* fetchGlobalRingtone after its await: a changed globalRingtone re-runs the
\* mount effect and the reschedule effect
PermRingFetchDone(f) ==
  /\ f.pc # "request"
  /\ IF f.pc = "data" /\ Truthy(f.data) /\ f.data # globalRingtone
       THEN /\ globalRingtone' = f.data
            /\ MountEffect
            /\ ringFetches' = (ringFetches (-) One(f)) (+) RingFetchCall
            /\ cancels' = cancels (+) RescheduleEffect(prayers, f.data)
       ELSE /\ ringFetches' = ringFetches (-) One(f)
            /\ UNCHANGED <<globalRingtone, loading, fetches, cancels, permCalls>>
  /\ event' = [kind |-> "fetchGlobalRingtone.done"]
  /\ UNCHANGED <<remote, prayers, updating, mounted, scheduled, schedReqs,
                 toggles, nOps, nFaults, before, again>>
  /\ UNCHANGED <<alarmVars, permission, prompts, permAlerts, nPermOps>>
  /\ UNCHANGED permFrame

\* an alarm starts while no remote call is in flight: the received listener
\* has run playAlarmSound(uri) up to setPlayingSound(newSound); the new
\* playingSound re-runs the mount effect
PermAlarmStarted(id, uri) ==
  /\ mounted
  /\ nOps + nPermOps < MaxPermOps
  /\ InFlight = 0
  /\ playingSound = NoSound
  /\ Truthy(uri)
  /\ nPermOps' = nPermOps + 1
  /\ activeAlarmId' = id
  /\ sounds' = CreatedSound(Append(sounds, NewSound(uri)), Len(sounds) + 1)
  /\ playingSound' = Len(sounds) + 1
  /\ MountEffect
  /\ event' = [kind |-> "alarmStarted"]
  /\ UNCHANGED <<remote, prayers, updating, globalRingtone, mounted, scheduled,
                 cancels, schedReqs, toggles, nOps, nFaults, before, again>>
  /\ UNCHANGED <<tray, recvs, resps, nAlarm, permission, prompts, permAlerts>>
  /\ UNCHANGED permFrame

\* an alarm stops: stopAlarm() has run to its end; setPlayingSound(null)
\* re-runs the mount effect
PermAlarmStopped ==
  /\ mounted
  /\ nOps + nPermOps < MaxPermOps
  /\ InFlight = 0
  /\ playingSound # NoSound
  /\ Loaded(sounds, playingSound)
  /\ nPermOps' = nPermOps + 1
  /\ sounds' = UnloadAsync(StopAsync(sounds, playingSound), playingSound)
  /\ playingSound' = NoSound
  /\ activeAlarmId' = Null
  /\ MountEffect
  /\ event' = [kind |-> "alarmStopped"]
  /\ UNCHANGED <<remote, prayers, updating, globalRingtone, mounted, scheduled,
                 cancels, schedReqs, toggles, nOps, nFaults, before, again>>
  /\ UNCHANGED <<tray, recvs, resps, nAlarm, permission, prompts, permAlerts>>
  /\ UNCHANGED permFrame

\* a toggle button pressed while nothing is in flight
PermToggle(i) ==
  /\ nOps + nPermOps < MaxPermOps
  /\ InFlight = 0
  /\ permCalls = EmptyBag
  /\ ToggleStart(i)

NextPerm ==
  \/ PermMount
  \/ \E c \in BagToSet(permCalls) : PermGet(c)
  \/ \E c \in BagToSet(permCalls) : \E status \in {"granted", "denied"} :
       PermAnswer(c, status)
  \/ \E f \in BagToSet(fetches) : FetchServe(f)
  \/ \E f \in BagToSet(fetches) : FetchDone(f)
  \/ \E f \in BagToSet(ringFetches) : RingFetchServe(f)
  \/ \E f \in BagToSet(ringFetches) : PermRingFetchDone(f)
  \/ \E c \in BagToSet(cancels) : CancelDone(c)
  \/ \E n \in BagToSet(schedReqs) : ScheduleApply(n)
  \/ \E id \in Ids : PermAlarmStarted(id, "file:own.mp3")
  \/ PermAlarmStopped
  \/ \E i \in 1..Len(prayers) : PermToggle(i)
  \/ \E t \in BagToSet(toggles) : ToggleServe(t)
  \/ \E t \in BagToSet(toggles) : ToggleOk(t)
  \/ \E t \in BagToSet(toggles) : ToggleError(t)

InitPermission ==
  /\ InitSched
  /\ \A i \in Ids : remote[i].enabled <=> i = PrayerIds[1]
  /\ InitAlarm
  /\ InitHome
  /\ balanceRows = <<>>
  /\ event = [kind |-> "none"]
  /\ savingsRows = <<>>
  /\ InitSavingsScreen
  /\ expensesRows = <<>>
  /\ InitExpensesScreen
  /\ InitConvIdle
  /\ InitEdit
  /\ InitAuthIdle
  /\ InitPick
  /\ InitDialog
  /\ permission \in PermissionStatuses
  /\ permCalls = EmptyBag
  /\ prompts = 0
  /\ permAlerts = 0
  /\ nPermOps = 0

SpecPerm == InitPermission /\ [][NextPerm]_vars

\* ------------------------------------------------------- the list emptied
\* fetchPrayers against a table that has lost its rows: the select answers
\* with no rows (data || [] is the empty list).

\* the select of fetchPrayers is answered with no row
FetchServeNone(f) ==
  /\ f.pc = "request"
  /\ Len(prayers) > 0
  /\ fetches' = (fetches (-) One(f)) (+) One([pc |-> "data", data |-> <<>>])
  /\ UNCHANGED <<remote, prayers, loading, updating, globalRingtone, mounted,
                 scheduled, cancels, schedReqs, ringFetches, toggles, nOps,
                 nFaults, before, again>>
  /\ UNCHANGED <<alarmVars, homeVars, moreVars, event>>

NextEmptied ==
  \/ Mount
  \/ \E f \in BagToSet(fetches) : FetchServe(f)
  \/ \E f \in BagToSet(fetches) : FetchServeNone(f)
  \/ \E f \in BagToSet(fetches) : FetchDone(f)
  \/ \E f \in BagToSet(ringFetches) : RingFetchServe(f)
  \/ \E f \in BagToSet(ringFetches) : RingFetchDone(f)
  \/ \E c \in BagToSet(cancels) : CancelDone(c)
  \/ \E n \in BagToSet(schedReqs) : ScheduleApply(n)

SpecEmptied == Init /\ [][NextEmptied]_vars

\* ------------------------------------------------- the prayer-store reducers
\* togglePrayerEnabled and updatePrayer dispatched on any state of the slice.

MaxDispatches == 2

\* an id no reminder has
MissingId == "p0"

\* the reducer updatePrayer without the spread of the old reminder
updatePrayerReplace(list, payload) ==
  LET index == FindIndex(list, payload.id)
  IN  IF index # -1 THEN [list EXCEPT ![index] = payload] ELSE list

\* the reducer updatePrayer:
\* state.prayers[index] = { ...state.prayers[index], ...action.payload }
updatePrayer(list, payload) ==
  LET index == FindIndex(list, payload.id)
  IN  IF index # -1
        THEN [list EXCEPT ![index] =
                [f \in DOMAIN list[index] \cup DOMAIN payload |->
                   IF f \in DOMAIN payload THEN payload[f] ELSE list[index][f]]]
        ELSE list

\* the lists the table can give the store: the first rows of a list, in order
SliceLists ==
  { SubSeq(l, 1, n) :
      l \in { t \in [1..NumPrayers -> SeedRows] :
                \A k \in 1..NumPrayers : t[k].id = PrayerIds[k] },
      n \in 0..NumPrayers }

\* the payloads updatePrayer is dispatched with
UpdatePayloads ==
  LET ids == Ids \cup {MissingId}
      t == <<"1", "8", ":", "3", "0">>
  IN  { [id |-> i] : i \in ids }
        \cup { [id |-> i, time |-> t] : i \in ids }
        \cup { [id |-> i, enabled |-> FALSE] : i \in ids }
        \cup { [id |-> i, time |-> t, ringtone_uri |-> "file:picked.mp3"] : i \in ids }

reducerFrame == <<remote, mounted, scheduled, cancels, schedReqs, fetches,
                  ringFetches, toggles, nFaults, before, again, alarmVars,
                  homeVars, moreVars>>

\* dispatch(togglePrayerEnabled(id))
DispatchToggle(id) ==
  /\ nOps < MaxDispatches
  /\ nOps' = nOps + 1
  /\ prayers' = togglePrayerEnabled(prayers, id)
  /\ event' = [kind |-> "togglePrayerEnabled", id |-> id]
  /\ UNCHANGED <<loading, updating, globalRingtone>>
  /\ UNCHANGED reducerFrame

\* dispatch(updatePrayer(payload))
DispatchUpdate(payload) ==
  /\ nOps < MaxDispatches
  /\ nOps' = nOps + 1
  /\ prayers' = updatePrayer(prayers, payload)
  /\ event' = [kind |-> "updatePrayer", payload |-> payload]
  /\ UNCHANGED <<loading, updating, globalRingtone>>
  /\ UNCHANGED reducerFrame

NextReducers ==
  \/ \E id \in Ids \cup {MissingId} : DispatchToggle(id)
  \/ \E payload \in UpdatePayloads : DispatchUpdate(payload)

InitReducers ==
  /\ prayers \in SliceLists
  /\ loading \in BOOLEAN
  /\ updating \in Ids \cup {Null}
  /\ globalRingtone \in InputGlobals
  /\ remote \in { t \in [Ids -> SeedRows] : \A i \in Ids : t[i].id = i /\ t[i].enabled }
  /\ mounted = TRUE
  /\ scheduled = EmptyBag
  /\ cancels = EmptyBag
  /\ schedReqs = EmptyBag
  /\ fetches = EmptyBag
  /\ ringFetches = EmptyBag
  /\ toggles = EmptyBag
  /\ nOps = 0
  /\ nFaults = 0
  /\ before = NoToggle
  /\ again = "none"
  /\ InitAlarm
  /\ InitHome
  /\ balanceRows = <<>>
  /\ event = [kind |-> "none"]
  /\ InitMore

SpecReducers == InitReducers /\ [][NextReducers]_vars

\* ------------------------------------------------------ in-progress flags
\* The handlers that raise loading / updating, of the prayers screen and of
\* the home screen, in one run: the prayers screen is used first, and the
\* home tab is opened once the prayers screen is at rest.

MaxFlagOps == 2       \* toggles and saves of the prayers screen

MaxFlagHomeOps == 1   \* presses of the refresh and the update button

\* what is typed into the amount field and the time field in this run
FlagAmountTexts == { <<"1", "5", "0">> }

FlagTimeTexts == { <<"6", ":", "3", "0">> }

\* every handler the prayers screen started has finished
PrayersAtRest == mounted /\ Quiescent /\ timeEdits = EmptyBag

\* the user is on the prayers tab and may start another toggle or save
OnPrayersTab == ~homeMounted /\ nOps + nEditOps < MaxFlagOps

\* the user may press another button of the home screen
OnHomeTab == nHomeOps < MaxFlagHomeOps

NextFlags ==
  \/ Mount
  \/ \E f \in BagToSet(fetches) : FetchServe(f)
  \/ \E f \in BagToSet(fetches) : FetchDone(f)
  \/ \E f \in BagToSet(ringFetches) : RingFetchServe(f)
  \/ \E f \in BagToSet(ringFetches) : RingFetchDone(f)
  \/ \E c \in BagToSet(cancels) : CancelDone(c)
  \/ \E n \in BagToSet(schedReqs) : ScheduleApply(n)
  \/ OnPrayersTab /\ \E i \in 1..Len(prayers) : ToggleStart(i)
  \/ \E t \in BagToSet(toggles) : ToggleServe(t)
  \/ \E t \in BagToSet(toggles) : ToggleOk(t)
  \/ \E t \in BagToSet(toggles) : ToggleError(t)
  \/ OnPrayersTab /\ \E i \in 1..Len(prayers) : EditTime(i)
  \/ OnPrayersTab /\ \E text \in FlagTimeTexts : TypeTime(text)
  \/ OnPrayersTab /\ SaveTime
  \/ \E t \in BagToSet(timeEdits) : TimeServe(t)
  \/ \E t \in BagToSet(timeEdits) : TimeOk(t)
  \/ \E t \in BagToSet(timeEdits) : TimeError(t)
  \/ \E t \in BagToSet(timeEdits) : TimeFetchServe(t)
  \/ \E t \in BagToSet(timeEdits) : TimeFetchDone(t)
  \/ PrayersAtRest /\ HomeMount
  \/ OnHomeTab /\ Refresh
  \/ OnHomeTab /\ \E text \in FlagAmountTexts : SetNewBalance(text)
  \/ OnHomeTab /\ UpdateBalanceStart
  \/ \E c \in BagToSet(calls) : SelectServe(c)
  \/ \E c \in BagToSet(calls) : FetchBalanceSelected(c)
  \/ \E c \in BagToSet(calls) : UpdateBalanceSelected(c)
  \/ \E c \in BagToSet(calls) : InsertServe(c)
  \/ \E c \in BagToSet(calls) : UpdateServe(c)
  \/ \E c \in BagToSet(calls) : FetchBalanceInserted(c)
  \/ \E c \in BagToSet(calls) : UpdateBalanceWritten(c)

InitFlags ==
  /\ InitSched
  /\ \A i \in Ids : remote[i].enabled <=> i = PrayerIds[1]
  /\ InitAlarm
  /\ InitHome
  /\ balanceRows = <<>>
  /\ event = [kind |-> "none"]
  /\ InitMore

SpecFlags == InitFlags /\ [][NextFlags]_vars

\* ------------------------------------------------------------------ claims
\* the notifications of bag b that carry reminder id
CountFor(b, id) ==
  LET S == { n \in BagToSet(b) : n.prayerId = id }
  IN  BagCardinality([n \in S |-> b[n]])

\* bag b holds one notification per enabled reminder of list, none for a
\* disabled one and none for anything else
ExactlyEnabled(b, list) ==
  /\ \A k \in 1..Len(list) :
       CountFor(b, list[k].id) = IF list[k].enabled THEN 1 ELSE 0
  /\ \A n \in BagToSet(b) : \E k \in 1..Len(list) : list[k].id = n.prayerId

\* "HH:MM" of an hour and a minute
HHMM(h, m) ==
  <<Digits[(h \div 10) + 1], Digits[(h % 10) + 1], ":",
    Digits[(m \div 10) + 1], Digits[(m % 10) + 1]>>

\* C1: when a call of scheduleNotifications returns, the OS holds exactly one
\* scheduled notification per enabled reminder of the list the call was made
\* with, none for a disabled reminder, no stale one and no duplicate.
C1_ScheduledIsEnabledSubsetOnReturn ==
  [][\A c \in BagToSet(cancels) :
       (cancels' = cancels (-) One(c)) => ExactlyEnabled(scheduled', c.list)]_vars

\* C2: after one toggle whose write succeeded, started with nothing in flight,
\* and once every call it caused has finished, the OS holds exactly one
\* notification per enabled reminder of the store's list.
C2_ScheduleFollowsToggle ==
  (nOps = 1 /\ before.quiet /\ nFaults = 0 /\ Quiescent)
    => ExactlyEnabled(scheduled, prayers)

\* C3: after two toggles of the same reminder, each started with nothing in
\* flight and neither failing, the reminder's enabled flag in the store and in
\* the remote row and the number of scheduled notifications are what they were
\* before the first toggle.
C3_TwoTogglesRestore ==
  (nOps = 2 /\ again = "same" /\ before.quiet /\ nFaults = 0 /\ Quiescent)
    => /\ \A k \in 1..Len(prayers) :
            prayers[k].id = before.id => prayers[k].enabled = before.enabled
       /\ remote[before.id].enabled = before.row
       /\ BagCardinality(scheduled) = before.count

\* the notification n is the one the contract prescribes for reminder r under
\* the global ringtone g
Prescribed(n, r, g) ==
  /\ HHMM(n.hour, n.minute) = r.time
  /\ n.prayerId = r.id
  /\ n.prayerName = r.prayer_name
  /\ n.categoryId = "prayer_alarm"
  /\ n.ringtoneUri = IF r.ringtone_uri \notin {Null, ""} THEN r.ringtone_uri ELSE g

Ringing == playingSound # NoSound /\ Loaded(sounds, playingSound)

Idle == playingSound = NoSound

LoadedSounds == { s \in 1..Len(sounds) : Loaded(sounds, s) }

\* C5: while the screen is mounted the alarm player never holds more than
\* one loaded sound, whatever the order in which notifications are
\* delivered and their sounds are created.
C5_AtMostOneLoadedSound == mounted => Cardinality(LoadedSounds) <= 1

\* a response the listener acts on: STOP_ALARM or the default action, on a
\* notification of category prayer_alarm that carries a prayerId
StopsAlarm(n, a) ==
  /\ a \in {"STOP_ALARM", DEFAULT_ACTION_IDENTIFIER}
  /\ n.categoryId = "prayer_alarm"
  /\ n.prayerId \notin {Null, ""}

C7_DeliveryStartsRinging ==
  [][ /\ event'.kind = "deliver" =>
           LET n == event'.n
               want == IF n.ringtoneUri \notin {Null, ""} THEN n.ringtoneUri
                                                        ELSE globalRingtone
           IN  IF n.categoryId = "prayer_alarm" /\ n.prayerId \notin {Null, ""}
                 THEN /\ activeAlarmId' = n.prayerId
                      /\ Idle =>
                           IF want \notin {Null, ""}
                             THEN sounds' = Append(sounds,
                                     [uri |-> want, status |-> "creating",
                                      playing |-> FALSE, looping |-> TRUE])
                             ELSE sounds' = sounds /\ recvs' = recvs
                 ELSE UNCHANGED <<playingSound, activeAlarmId, sounds, recvs,
                                  resps>>
      /\ event'.kind = "created" =>
           /\ Loaded(sounds', event'.sound)
           /\ sounds'[event'.sound].playing
           /\ sounds'[event'.sound].looping
           /\ mounted => playingSound' = event'.sound
    ]_vars

\* the alarm rings with the global ringtone for a reminder without one
C7_Witness ==
  /\ event.kind = "created"
  /\ Ringing
  /\ playingSound = event.sound
  /\ sounds[playingSound].playing
  /\ sounds[playingSound].looping
  /\ sounds[playingSound].uri = globalRingtone
  /\ activeAlarmId = "p2"

\* C8: once the screen is unmounted and the handlers in flight are through,
\* no alarm sound is loaded or playing.
C8_NothingLoadedAfterUnmount ==
  (~mounted /\ recvs = EmptyBag /\ resps = EmptyBag) =>
    \A s \in 1..Len(sounds) : ~Loaded(sounds, s) /\ ~sounds[s].playing

\* C9: the balance table never holds more than one row.
C9_AtMostOneBalanceRow == Len(balanceRows) <= 1

FetchInFlight(bag) == \E c \in BagToSet(bag) : c.fn = "fetchBalance"

\* C10: when fetchBalance learns that the table is empty it asks for the
\* insert of one row with amount 0, the table takes exactly that row, and
\* the balance shown becomes 0; when its read returns a row the balance
\* shown becomes that row's amount and fetchBalance ends without a write;
\* when the read fails otherwise fetchBalance ends without a write and the
\* balance shown stays.
C10_FetchBalanceCases ==
  [][ /\ event'.kind = "fetchBalance.selected" =>
           IF event'.error \notin {"none", "PGRST116"}
             THEN /\ balance' = balance
                  /\ balanceRows' = balanceRows
                  /\ ~FetchInFlight(calls')
             ELSE IF event'.data # <<>>
               THEN /\ balance' = event'.data[1].amount
                    /\ balanceRows' = balanceRows
                    /\ ~FetchInFlight(calls')
               ELSE /\ balanceRows' = balanceRows
                    /\ \E c \in BagToSet(calls') :
                         c.fn = "fetchBalance" /\ c.pc = "insert" /\ c.amount = 0
      /\ (event'.kind = "insert.served" /\ event'.fn = "fetchBalance"
            /\ event'.error = "none") =>
           /\ Len(balanceRows') = Len(balanceRows) + 1
           /\ balanceRows'[Len(balanceRows')].amount = 0
           /\ SubSeq(balanceRows', 1, Len(balanceRows)) = balanceRows
      /\ (event'.kind = "fetchBalance.inserted" /\ event'.error = "none") =>
           /\ balance' = 0
           /\ balanceRows' = balanceRows
    ]_vars

\* fetchBalance found the table empty, inserted the row and shows 0
C10_Witness ==
  /\ event.kind = "fetchBalance.inserted"
  /\ event.error = "none"
  /\ balanceRows = <<[id |-> 1, amount |-> 0]>>
  /\ balance = 0
  /\ ~homeLoading
  /\ calls = EmptyBag

\* the rows of the table for the pair of entry e
RowsFor(rows, e) == { k \in 1..Len(rows) : SamePair(rows[k], e) }

\* C11: every savings submission the table accepts leaves exactly one row
\* for its (month, year), with the submitted amount; it replaces the row
\* of that pair if there was one, adds one otherwise, and touches no other
\* row.
C11_UpsertKeepsOneEntryPerPair ==
  [][ (event'.kind = "upsert.served" /\ event'.error = "none") =>
        LET e == event'.entry
        IN  /\ Cardinality(RowsFor(savingsRows', e)) = 1
            /\ \A k \in RowsFor(savingsRows', e) : savingsRows'[k].amount = e.amount
            /\ Len(savingsRows') =
                 Len(savingsRows) + (IF RowsFor(savingsRows, e) = {} THEN 1 ELSE 0)
            /\ \A k \in 1..Len(savingsRows) :
                 ~SamePair(savingsRows[k], e) => savingsRows'[k] = savingsRows[k]
    ]_vars

\* two submissions for one pair went through, the second with another
\* amount, and the table holds the one row with the second amount
C11_Witness ==
  /\ event.kind = "upsert.served"
  /\ event.error = "none"
  /\ nSavOps = 2
  /\ nFaults = 0
  /\ Len(savingsRows) = 1
  /\ savingsRows[1].amount = event.entry.amount
  /\ Len(savings) = 1
  /\ savings[1].month = event.entry.month
  /\ savings[1].amount # event.entry.amount

\* the text is a decimal numeral from its first to its last character
IsNumeral(text) ==
  LET unsigned == IF text # <<>> /\ Head(text) \in {"-", "+"} THEN Tail(text)
                                                                ELSE text
      int      == DigitPrefix(unsigned)
      rest     == SubSeq(unsigned, Len(int) + 1, Len(unsigned))
  IN  /\ unsigned # <<>>
      /\ \/ rest = <<>>
         \/ /\ Head(rest) = "."
            /\ Len(rest) > 1
            /\ DigitPrefix(Tail(rest)) = Tail(rest)

\* C12: handleAddExpense issues the insert exactly when the name is not
\* empty and the amount text is a numeral of a value above 0; otherwise it
\* shows the error and leaves the calls in flight, the table and the list
\* as they are.
C12_ExpenseCreateValidated ==
  [][ event'.kind = "handleAddExpense" =>
        LET valid == /\ event'.name # ""
                     /\ IsNumeral(event'.amount)
                     /\ parseFloat(event'.amount).value > 0
        IN  IF valid
              THEN \E c \in BagToSet(expCalls') :
                     /\ c.fn = "handleAddExpense"
                     /\ c.pc = "insert"
                     /\ expCalls' = expCalls (+) One(c)
              ELSE /\ modal' = "error"
                   /\ expCalls' = expCalls
                   /\ expensesRows' = expensesRows
                   /\ expenses' = expenses
    ]_vars

\* C13: the two time conversions are inverse on valid times.  A zero-padded
\* 24-hour HH:MM comes back unchanged from convertTo12Hour followed by
\* convertTo24Hour; a 12-hour time (hour 1-12 unpadded, minute 00-59) with its
\* AM/PM flag comes back unchanged, flag included, from convertTo24Hour
\* followed by convertTo12Hour; convertTo24Hour pads the hour, maps 12 AM to
\* hour 00 and 12 PM to hour 12, and turns 6:30 AM into 06:30.
C13_ConversionsRoundTrip ==
  /\ Len(convTrace) = 2 => convVal = convArg
  /\ convTrace = <<"convertTo24Hour">> =>
       /\ Len(convVal.time) = 5
       /\ SplitColon(convArg.time)[1] = <<"1", "2">> =>
            SplitColon(convVal.time)[1] =
              IF convArg.isPM THEN <<"1", "2">> ELSE <<"0", "0">>
       /\ convArg.time = <<"6", ":", "3", "0">> /\ ~convArg.isPM =>
            convVal.time = <<"0", "6", ":", "3", "0">>

\* 12:05 AM was converted to 00:05 and back
C13_Witness ==
  /\ convTrace = <<"convertTo24Hour", "convertTo12Hour">>
  /\ convArg = [kind |-> "12", time |-> <<"1", "2", ":", "0", "5">>, isPM |-> FALSE]
  /\ convVal = convArg

\* the time of reminder id in list, <<>> when the list has no such reminder
TimeOf(list, id) ==
  IF FindIndex(list, id) # -1 THEN list[FindIndex(list, id)].time ELSE <<>>

\* C14: handleSaveTime commits only a zero-padded valid 24-hour HH:MM, to the
\* store and (through handleTimeChange) to the remote row; an empty or
\* malformed time field is rejected with a message before any store update or
\* network call.  So every time the store or the remote table holds is a
\* valid HH:MM.
C14_SaveTimeCommitsValidTime ==
  /\ [](\A i \in Ids : remote[i].time \in ClockTimes24)
  /\ [](\A k \in 1..Len(prayers) : prayers[k].time \in ClockTimes24)
  /\ [][nEditOps' = nEditOps + 1 =>
          IF timeInput \in ClockTimes12
            THEN /\ event'.alert = "none"
                 /\ TimeOf(prayers', editingTimeId) \in ClockTimes24
                 /\ \E t \in BagToSet(timeEdits') :
                      /\ t.pc = "request" /\ t.id = editingTimeId
                      /\ t.time = TimeOf(prayers', editingTimeId)
                 /\ BagCardinality(timeEdits') = BagCardinality(timeEdits) + 1
            ELSE /\ event'.alert \in {"Error", "Invalid Format"}
                 /\ timeInput = <<>> <=> event'.alert = "Error"
                 /\ UNCHANGED <<schedVars, timeEdits>>]_vars

\* 6:30 PM was saved for the first reminder and the remote row has taken it
C14_Witness ==
  /\ nEditOps > 0
  /\ remote["p1"].time = <<"1", "8", ":", "3", "0">>
  /\ TimeOf(prayers, "p1") = <<"1", "8", ":", "3", "0">>

\* the users table holds a row with exactly this username and password
RowMatches(u, p) ==
  \E k \in 1..Len(usersRows) : usersRows[k] = [username |-> u, password |-> p]

\* C15: when login(username, password) returns true, the users table holds a
\* row with exactly that username and password, the in-memory flag is true
\* and AsyncStorage holds isAuthenticated = 'true' and the username; when no
\* row matches or the lookup fails, login returns false and leaves the
\* in-memory flag and both persisted keys as they were.
C15_LoginGate ==
  [][event'.kind = "login" =>
       /\ event'.result =>
            /\ RowMatches(event'.username, event'.password)
            /\ isAuthenticated'
            /\ storage'.isAuthenticated = "true"
            /\ storage'.username = event'.username
       /\ (~RowMatches(event'.username, event'.password) \/ event'.step = "lookup") =>
            /\ ~event'.result
            /\ isAuthenticated' = isAuthenticated
            /\ storage' = storage]_vars

\* login has returned true for ejaz / 123 and the gate is open
C15_Witness ==
  /\ event.kind = "login"
  /\ event.result
  /\ event.username = "ejaz" /\ event.password = "123"
  /\ isAuthenticated
  /\ storage = [isAuthenticated |-> "true", username |-> "ejaz"]

\* C16: when logout returns, the in-memory flag is false and AsyncStorage
\* holds neither isAuthenticated nor username; a startup check that finds no
\* stored flag leaves the gate closed.
C16_LogoutClearsGate ==
  [][/\ event'.kind = "logout" =>
          /\ ~isAuthenticated'
          /\ storage'.isAuthenticated = Null
          /\ storage'.username = Null
     /\ (event'.kind = "checkAuthStatus" /\ storage.isAuthenticated = Null
           /\ ~isAuthenticated) => ~isAuthenticated']_vars

\* C18: when loginWithFingerprint returns true, the device has biometric
\* hardware, a biometric is enrolled, the prompt succeeded and the users table
\* holds the fixed credential pair, and the gate is open as after a login;
\* when one of the four steps fails it returns false and leaves the in-memory
\* flag and the persisted keys as they were.
C18_FingerprintGate ==
  [][event'.kind = "loginWithFingerprint" =>
       /\ event'.result =>
            /\ biometrics.hardware /\ biometrics.enrolled
            /\ event'.prompt = "success"
            /\ RowMatches(FixedUsername, FixedPassword)
            /\ isAuthenticated'
            /\ storage' = [isAuthenticated |-> "true", username |-> FixedUsername]
       /\ (\/ ~biometrics.hardware
           \/ ~biometrics.enrolled
           \/ event'.prompt # "success"
           \/ ~RowMatches(FixedUsername, FixedPassword)
           \/ event'.step \in {"hardware", "enrolled", "prompt", "lookup"}) =>
            /\ ~event'.result
            /\ isAuthenticated' = isAuthenticated
            /\ storage' = storage]_vars

\* loginWithFingerprint has returned true after a successful prompt
C18_Witness ==
  /\ event.kind = "loginWithFingerprint"
  /\ event.result
  /\ event.prompt = "success"
  /\ isAuthenticated
  /\ storage.isAuthenticated = "true"

\* the router.replace calls a step has added
AddedReplaces ==
  LET old == IF event'.kind = "navigate" THEN Len(navs) - 1 ELSE Len(navs)
  IN  { navs'[k] : k \in (old + 1)..Len(navs') }

\* the route shows the tab set only to an authenticated user and the login
\* route only to an unauthenticated one, and no redirect is pending
Settled ==
  /\ ~isLoading
  /\ navs = <<>>
  /\ segments = "(tabs)" => isAuthenticated
  /\ segments = "login" => ~isAuthenticated

\* C17: the guard redirects only once the startup check is over, to the login
\* route only when the user is unauthenticated inside the tab set, and to the
\* tab set only when the user is authenticated on the login route; whenever
\* one of these two cases comes up it does redirect, and in the end the route
\* settles, for good, with the tab set shown only when authenticated.
C17_GuardFollowsFlag ==
  /\ [][/\ \A r \in AddedReplaces :
             r.by = "guard" =>
               /\ ~isLoading'
               /\ \/ r.route = "login" /\ ~isAuthenticated' /\ segments' = "(tabs)"
                  \/ r.route = "(tabs)" /\ isAuthenticated' /\ segments' = "login"
        /\ (/\ <<isAuthenticated', isLoading', segments'>>
                  # <<isAuthenticated, isLoading, segments>>
            /\ ~isLoading'
            /\ \/ ~isAuthenticated' /\ segments' = "(tabs)"
               \/ isAuthenticated' /\ segments' = "login") =>
             \E r \in AddedReplaces : r.by = "guard"]_vars
  /\ <>[]Settled

\* the guard has sent an unauthenticated user from the tab set to the login
\* route
C17_Witness ==
  /\ event.kind = "navigate"
  /\ segments = "login"
  /\ ~isAuthenticated
  /\ ~isLoading
  /\ navs = <<>>
  /\ restarts = 0
  /\ nAuthOps = 0

\* C19: after one toggle, started with nothing in flight, whose write failed,
\* and once every call it caused (the reschedules, the resync fetch) has
\* finished, the reminder's enabled flag in the store is the one from before
\* the toggle, the remote row is unchanged, updating is cleared, and the OS
\* holds exactly one notification per reminder that is enabled in the list,
\* which is the list from before the toggle.
C19_FailedToggleReverted ==
  (nOps = 1 /\ before.quiet /\ before.failed /\ Quiescent)
    => /\ \A k \in 1..Len(prayers) :
            prayers[k].id = before.id => prayers[k].enabled = before.enabled
       /\ \A k \in 1..Len(prayers) :
            prayers[k].enabled = remote[prayers[k].id].enabled
       /\ remote[before.id].enabled = before.row
       /\ updating = Null
       /\ ExactlyEnabled(scheduled, prayers)

\* C20: when the update issued by handleSetGlobalRingtone fails, the call
\* having started with nothing in flight, the store's globalRingtone is the
\* one from before the call and every reminder row has the ringtone it had;
\* when the picker is cancelled the store and the rows stay as they are.
C20_RingtoneFailureKeepsState ==
  [][\A c \in BagToSet(picks) :
       picks' = picks (-) One(c) =>
         /\ (c.pc = "error" /\ c.quiet) =>
              /\ globalRingtone' = c.before
              /\ \A i \in Ids : remote'[i].ringtone_uri = c.rows[i]
         /\ c.pc = "picker" => UNCHANGED <<globalRingtone, remote, prayers>>]_vars
\* C21: deleting an expense or a work entry is gated by confirmation: a remote
\* delete for an id is issued only by a press of the confirm button of the
\* confirmation dialog opened for that id, a row leaves a table only through
\* such a delete, and cancelling or dismissing the dialog (overlay tap, back
\* request) issues no delete and leaves the rows unchanged.
C21_DeleteNeedsConfirm ==
  [][ /\ BagCardinality(deletes') > BagCardinality(deletes)
           => /\ event'.kind = "confirm"
              /\ visible
              /\ config.type = "confirm"
              /\ config = DeleteConfig(config.table, config.id)
              /\ deletes' = deletes (+) One([table |-> config.table,
                                             id |-> config.id, pc |-> "request"])
      /\ expensesRows' # expensesRows \/ workRows' # workRows
           => \E c \in BagToSet(deletes) :
                /\ c.pc = "request"
                /\ expensesRows' = IF c.table = "expenses"
                                     THEN DeleteEq(expensesRows, c.id)
                                     ELSE expensesRows
                /\ workRows' = IF c.table = "work_tracker"
                                 THEN DeleteEq(workRows, c.id)
                                 ELSE workRows
      /\ event'.kind \in {"cancel", "dismiss", "deletePress"}
           => UNCHANGED <<deletes, expensesRows, workRows>>
    ]_vars

\* a confirmed delete has removed expense 2 after another dialog was cancelled
\* or dismissed
C21_Witness ==
  /\ event.kind = "deleteServe"
  /\ event.table = "expenses"
  /\ event.id = 2
  /\ Len(expensesRows) = 1
  /\ expensesRows[1].id = 1
  /\ nDlgOps = 2

\* C28: a dialog shown with showModal stays visible with its own
\* configuration until the user dismisses it: the callback of a hideModal
\* started before the latest showModal neither hides nor clears the dialog.
C28_LaterDialogStaysVisible ==
  [][ event'.kind = "hideDone" /\ event'.started < shows
        => visible' = visible /\ config' = config ]_vars
\* C22: the permission request and its 'Permission Required' alert happen
\* once, at the startup of the prayers screen: whatever happens later on the
\* mounted screen (an alarm starting or stopping, the global ringtone
\* changing, toggles), requestPermissionsAsync is called at most once and the
\* alert is shown at most once.
C22_PermissionAskedOnce == prompts <= 1 /\ permAlerts <= 1
\* C23: overlapping reschedules never leave duplicates: once every
\* scheduleNotifications call and every request it made has finished, each
\* reminder has at most one scheduled notification, and a reminder disabled
\* in the latest list has none.
C23_NoDuplicatesAfterOverlap ==
  Quiescent =>
    \A k \in 1..Len(prayers) :
      /\ CountFor(scheduled, prayers[k].id) <= 1
      /\ ~prayers[k].enabled => CountFor(scheduled, prayers[k].id) = 0
\* C24: quiescent consistency of the reminder cache: whenever the screen has
\* loaded its list, no fetch or write is in flight and no remote call has
\* failed, the store's list holds, for every reminder, the enabled flag and
\* the time of the remote row.
C24_CacheEqualsRemoteAtRest ==
  mounted /\ Quiescent /\ timeEdits = EmptyBag /\ nFaults = 0 /\ Len(prayers) > 0
    => /\ Len(prayers) = NumPrayers
       /\ \A k \in 1..Len(prayers) :
            /\ prayers[k].enabled = remote[prayers[k].id].enabled
            /\ prayers[k].time = remote[prayers[k].id].time
\* C25: per-reminder in-flight guard: while the write of a toggle or of a
\* time change for a reminder is in flight, the store's updating field is
\* that reminder's id (so its controls are disabled and no second write for
\* it can start), whatever the writes for other reminders do in the meantime.
C25_UpdatingGuardsWriteInFlight ==
  /\ \A t \in BagToSet(toggles) : updating = t.id
  /\ \A t \in BagToSet(timeEdits) : t.pc = "request" => updating = t.id
\* C26: the in-memory and the persisted authentication flag agree whenever no
\* auth operation is in flight: isAuthenticated is true in memory exactly
\* when AsyncStorage holds isAuthenticated = 'true', also after
\* local-storage writes or removals that failed.
C26_FlagsAgreeAtRest ==
  authCalls = EmptyBag => (isAuthenticated <=> storage.isAuthenticated = "true")
\* C27: the schedule follows the list when it becomes empty: once the list of
\* the mounted screen is empty and every effect and request has run, no
\* scheduled prayer notification remains.
C27_EmptyListEmptySchedule ==
  mounted /\ Quiescent /\ prayers = <<>> => scheduled = EmptyBag
\* what a dispatch for id may do to the list: the reminder with that id
\* becomes changed(old), every other reminder and the order stay
OnlyChanges(id, changed(_)) ==
  /\ Len(prayers') = Len(prayers)
  /\ \A k \in 1..Len(prayers) :
       prayers'[k] = IF prayers[k].id = id THEN changed(prayers[k]) ELSE prayers[k]
  /\ (\A k \in 1..Len(prayers) : prayers[k].id # id) => prayers' = prayers
  /\ UNCHANGED <<loading, updating, globalRingtone>>

\* C29: the prayer-store reducers touch only what they name:
\* togglePrayerEnabled(id) flips enabled of the reminder with that id,
\* updatePrayer({id, ...fields}) overwrites only the given fields of that
\* reminder; the reminder's other fields, every other reminder, the order,
\* loading, updating and globalRingtone stay, and with an id no reminder has
\* the whole state stays.
C29_ReducersTouchOnlyWhatTheyName ==
  [][ /\ event'.kind = "togglePrayerEnabled"
           => OnlyChanges(event'.id,
                          LAMBDA old : [old EXCEPT !.enabled = ~old.enabled])
      /\ event'.kind = "updatePrayer"
           => LET p == event'.payload
              IN  OnlyChanges(p.id,
                    LAMBDA old :
                      [f \in {"id", "prayer_name", "time", "enabled", "ringtone_uri"} |->
                         IF f = "id" THEN old.id
                         ELSE IF f = "prayer_name" THEN old.prayer_name
                         ELSE IF f = "time"
                           THEN IF "time" \in DOMAIN p THEN p.time ELSE old.time
                         ELSE IF f = "enabled"
                           THEN IF "enabled" \in DOMAIN p THEN p.enabled ELSE old.enabled
                         ELSE IF "ringtone_uri" \in DOMAIN p
                           THEN p.ringtone_uri ELSE old.ringtone_uri])
    ]_vars

\* updatePrayer has given reminder p1 a new time and ringtone and kept its
\* enabled flag, after a toggle of p2
C29_Witness ==
  /\ nOps = 2
  /\ event.kind = "updatePrayer"
  /\ event.payload = [id |-> "p1", time |-> <<"1", "8", ":", "3", "0">>,
                      ringtone_uri |-> "file:picked.mp3"]
  /\ Len(prayers) = NumPrayers
  /\ prayers[1].time = <<"1", "8", ":", "3", "0">>
  /\ prayers[1].ringtone_uri = "file:picked.mp3"
  /\ prayers[1].enabled
  /\ prayers[1].prayer_name = PrayerNames[1]
\* every handler the home screen started has finished
HomeAtRest == homeMounted /\ calls = EmptyBag

\* C30: in-progress flags are always released: for every outcome of
\* fetchBalance and updateBalance, once the handlers the home screen started
\* have finished its loading and updating flags are false; for every outcome
\* of fetchPrayers, handleToggleEnabled and handleTimeChange, once the
\* handlers the prayers screen started have finished the store's loading is
\* false and its updating is null.
C30_FlagsReleased ==
  /\ HomeAtRest => ~homeLoading /\ ~homeUpdating
  /\ PrayersAtRest => loading = FALSE /\ updating = Null

\* both screens are at rest after a fetch that failed, an update of the
\* balance, a toggle and a time change
C30_Witness ==
  /\ HomeAtRest
  /\ PrayersAtRest
  /\ nFaults = MaxFaults
  /\ nHomeOps > 0
  /\ nOps > 0
  /\ nEditOps > 0

====
